---------------------------- MODULE Spec2Model ----------------------------
(***************************************************************************)
(* A model of the simulation kernel of the supply-chain simulator:         *)
(*   - EventManager / Event     (src/src/simulation_core/event_manager.py) *)
(*   - SimulationEngine         (src/src/simulation_core/engine.py)        *)
(*   - DisruptionAgent          (src/src/agents/disruption_agent.py)       *)
(*                                                                         *)
(*   - SupplyChainNetwork   (src/src/supply_chain_network/network_model.py, *)
(*                           nodes.py, edges.py)                           *)
(*                                                                         *)
(* The specifications share the variables below:                           *)
(*   SpecEQ  : an EventManager driven directly (schedule_event,            *)
(*             process_events with any step, env.timeout), as the          *)
(*             __main__ example of event_manager.py drives it;             *)
(*   Spec    : a SimulationEngine run (run_simulation / _simulation_loop); *)
(*   SpecDis : one DisruptionAgent stepped once per tick from tick 0;      *)
(*   SpecDisAny : one DisruptionAgent stepped with any ticks;              *)
(*   FairSpec : Spec with the loop of a started run going on to its end;   *)
(*   SpecOps : Spec with stop() and run_simulation() called when no run is *)
(*             in progress;                                                *)
(*   SpecSetup : a network built node by node, then setup_simulation.      *)
(*   SpecNet : a SupplyChainNetwork whose methods are called in any order; *)
(*   SpecPath : a network of nodes on which add_edge and find_path are     *)
(*             called;                                                     *)
(*   SpecAgents : one agent of each class stepped tick after tick;         *)
(*   SpecResetup : SpecSetup with repeated setup_simulation calls;         *)
(*   SpecStop : Spec with stop() called before the run.                    *)
(* A component a specification does not use keeps its initial value.       *)
(***************************************************************************)
EXTENDS Integers, Sequences, FiniteSets

(***************************************************************************)
(* Bounds of the model.                                                    *)
(***************************************************************************)
\* number of schedule_event calls made in one behaviour
MaxEvents == 3
\* number of schedule_event calls made in one behaviour of an engine run
MaxRunEvents == 2
\* largest tick: total_steps, event steps and env.now range over 0..MaxTicks
MaxTicks == 2
\* largest number of registered agents
MaxAgents == 2
\* largest start_step of the disruption agent
MaxStart == 5
\* largest duration of the disruption agent
MaxDuration == 3
\* number of remove_impact calls after which SpecDisAny stops stepping
MaxCycles == 2
\* largest number of nodes of the network
MaxNodes == 3
\* largest number of agents of one kind the configuration asks for
MaxCap == 2
\* number of add_edge calls made in one behaviour of SpecPath
MaxEdges == 3

(***************************************************************************)
(* State.                                                                  *)
(***************************************************************************)
\* EventManager and the process_events call in progress
VARIABLES now, event_queue, events_to_trigger_now, triggered, triggered_count,
          proc_step, process_call
\* what has been observed of the EventManager (history, not program state)
VARIABLES calls, fire_log, processed_since
\* SimulationEngine and the position of _simulation_loop
VARIABLES agents, total_steps, day, current_step, running, results, pc,
          agent_idx
\* what has been observed of the run (history, not program state);
\* early_stop: stop() was called before run_simulation
VARIABLES stepped, metrics_log, process_log, first_error, stop_tick,
          early_stop
\* DisruptionAgent, the tick of its next step, its calls of the impact hooks
VARIABLES start_step, duration, active, duration_remaining, dis_tick,
          apply_calls, remove_calls
\* SupplyChainNetwork.nodes_dict: the node objects in insertion order
VARIABLES nodes_dict
\* SupplyChainNetwork.graph, the nx.MultiDiGraph: the set of its nodes and
\* the set of its edges <<source, destination, key>>
VARIABLES graph
\* SupplyChainNetwork.edges_dict: the edge objects in insertion order
VARIABLES edges_dict
\* the last call of a method of the network and how it ended (history, not
\* program state): the method, the branch of its code the call took, how
\* it left ("returned" or the exception raised to the caller) and the
\* value returned
VARIABLES net_call
\* the edges a caller has asked add_edge for with an id not yet in
\* edges_dict and two nodes of the network, as <<source, destination,
\* edge id, cost_per_unit>> (history, not program state; kept by SpecPath)
VARIABLES asked
\* config["agent_configs"] of the engine, and how its setup_simulation went
VARIABLES agent_configs, setup_state

emVars == <<now, event_queue, events_to_trigger_now, triggered,
            triggered_count, proc_step, process_call>>
emObs == <<calls, fire_log, processed_since>>
engVars == <<agents, total_steps, day, current_step, running, results, pc,
             agent_idx>>
engObs == <<stepped, metrics_log, process_log, first_error, stop_tick,
           early_stop>>
disVars == <<start_step, duration, active, duration_remaining, dis_tick,
             apply_calls, remove_calls>>
netVars == <<nodes_dict, graph, edges_dict, net_call, asked>>
cfgVars == <<agent_configs, setup_state>>
vars == <<emVars, emObs, engVars, engObs, disVars, netVars, cfgVars>>

EventIds == 1..MaxEvents
Ticks == 0..MaxTicks

(***************************************************************************)
(* Event and EventManager.                                                 *)
(***************************************************************************)
\* Event.__init__: a new event object; id is the object's identity, which is
\* also the number of the schedule_event call that created it.  The
\* triggered field of the object is triggered[id].
NewEvent(id, step) == [id |-> id, step |-> step]

EventLe(a, b) == a.step <= b.step

\* Event.__lt__: events compare by step only.
EventLt(a, b) == a.step < b.step

\* list.sort() is a stable sort by __lt__: an element moves in front of
\* exactly the elements that are greater than it.
RECURSIVE InsertStable(_, _)
InsertStable(s, e) ==
    IF s = <<>> THEN <<e>>
    ELSE IF EventLt(e, s[Len(s)])
         THEN Append(InsertStable(SubSeq(s, 1, Len(s) - 1), e), s[Len(s)])
         ELSE Append(s, e)

RECURSIVE Sort(_)
Sort(s) ==
    IF s = <<>> THEN <<>>
    ELSE InsertStable(Sort(SubSeq(s, 1, Len(s) - 1)), s[Len(s)])

IsPastStepOffByOne(step) == step < now - 1

\* a test that also rejects the current step
IsPastStepOrNow(step) == step <= now

\* schedule_event, line 66: the test that rejects a step in the past.
IsPastStep(step) == step < now

\* the tick the simulation loop is in: -1 before the first tick
LoopTick == IF pc = "not_started" THEN -1 ELSE current_step

\* schedule_event: the call is numbered Len(calls) + 1; calls records, for
\* every call, its step, whether the step was in the past when it was made,
\* whether an event was created, whether the call left the queue as it
\* was, and the tick of the loop it was made in.  processed_since[i] tells whether
\* process_events(T) has been called since call i, for T the step of call i.
ScheduleEvent(step) ==
    LET id == Len(calls) + 1
        queue == IF IsPastStep(step) THEN event_queue
                 ELSE Sort(Append(event_queue, NewEvent(id, step)))
    IN
    /\ event_queue' = queue
    /\ calls' = Append(calls, [step |-> step,
                               past |-> step < now,
                               accepted |-> ~IsPastStep(step),
                               kept |-> queue = event_queue,
                               during |-> LoopTick])

RECURSIVE SelectEvents(_, _, _)
SelectEvents(q, T, due) ==
    IF q = <<>> THEN <<>>
    ELSE LET e == Head(q)
             isDue == e.step = T /\ ~triggered[e.id]
         IN (IF isDue = due THEN <<e>> ELSE <<>>)
            \o SelectEvents(Tail(q), T, due)

\* process_events, lines 87-91: the events appended to events_to_trigger_now
DueEvents(q, T) == SelectEvents(q, T, TRUE)

\* a partition that also drops the events of the steps before T
RemainingEventsAfter(q, T) == SelectSeq(q, LAMBDA e : e.step > T)

RemainingEventsKeepAll(q, T) == q

\* process_events, lines 87-93: the events appended to remaining_events,
\* which replaces the queue
RemainingEvents(q, T) == SelectEvents(q, T, FALSE)

\* process_events up to the loop over events_to_trigger_now (lines 80-96).
\* proc_step is the current_step argument of the call in progress (-1 when
\* no call is in progress), triggered_count its counter and, once
\* process_call is "returned", its return value.
ProcessEventsBegin(T) ==
    /\ events_to_trigger_now' = DueEvents(event_queue, T)
    /\ event_queue' = RemainingEvents(event_queue, T)
    /\ triggered_count' = 0
    /\ proc_step' = IF DueEvents(event_queue, T) = <<>> THEN -1 ELSE T
    /\ process_call' = IF DueEvents(event_queue, T) = <<>>
                       THEN "returned" ELSE "active"
    /\ processed_since' = [i \in EventIds |->
                             \/ processed_since[i]
                             \/ i <= Len(calls) /\ calls[i].step = T]

CaughtNothing(exc) == FALSE

\* Event.trigger, line 37: "except Exception" catches what an action raises
CaughtByTrigger(exc) == exc = "Exception"

\* What the action of an event does when it is called: it returns, it
\* raises, it schedules an event and returns, or it calls engine.stop() and
\* returns.
ReturnBeh == [kind |-> "return", step |-> 0]
RaiseBeh == [kind |-> "raise", step |-> 0]
StopBeh == [kind |-> "stop", step |-> 0]
ScheduleBeh(t) == [kind |-> "schedule", step |-> t]
ScheduleBehs == {ScheduleBeh(t) : t \in Ticks}

\* The effect of a callback (an event's action or an agent's step) on the
\* EventManager.
CallbackOnQueue(beh) ==
    IF beh.kind = "schedule"
    THEN /\ Len(calls) < MaxEvents
         /\ ScheduleEvent(beh.step)
    ELSE UNCHANGED <<event_queue, calls>>

\* the flags with the flag of event id set whether or not its action raised
MarkTriggeredAlways(id, failed) == [triggered EXCEPT ![id] = TRUE]

\* Event.trigger, lines 34-36: "self.triggered = True" is the statement after
\* the call of the action inside the try block, so it is reached only when
\* the action returned.
MarkTriggered(id, failed) ==
    IF failed THEN triggered ELSE [triggered EXCEPT ![id] = TRUE]

\* One iteration of the loop of process_events (lines 97-99): Event.trigger
\* of the next due event (lines 30-40), then triggered_count += 1.  The
\* call returns after the last iteration; an exception that trigger does not
\* catch leaves process_events at once.  fire_log records every invocation
\* of an action: the event, the step and the number of the process_events
\* call that made it (counting the calls that found a due event), and
\* whether the action raised.
TriggerNext(beh) ==
    LET e == Head(events_to_trigger_now)
        ran == ~triggered[e.id]
        failed == ran /\ beh.kind = "raise"
        escapes == failed /\ ~CaughtByTrigger("Exception")
        lastCall == IF fire_log = <<>> THEN 0 ELSE fire_log[Len(fire_log)].call
        thisCall == IF triggered_count = 0 THEN lastCall + 1 ELSE lastCall
    IN
    /\ events_to_trigger_now # <<>>
    /\ IF ran
       THEN /\ fire_log' = Append(fire_log, [id |-> e.id, at |-> proc_step,
                                             call |-> thisCall,
                                             raised |-> failed])
            /\ IF failed THEN UNCHANGED <<event_queue, calls>>
               ELSE CallbackOnQueue(beh)
            /\ triggered' = MarkTriggered(e.id, failed)
       ELSE /\ beh = ReturnBeh
            /\ UNCHANGED <<fire_log, event_queue, calls, triggered>>
    /\ events_to_trigger_now' = IF escapes THEN <<>>
                                ELSE Tail(events_to_trigger_now)
    /\ triggered_count' = IF escapes THEN triggered_count
                          ELSE triggered_count + 1
    /\ process_call' = IF escapes THEN "raised"
                       ELSE IF Tail(events_to_trigger_now) = <<>>
                            THEN "returned" ELSE "active"
    /\ proc_step' = IF escapes \/ Tail(events_to_trigger_now) = <<>>
                    THEN -1 ELSE proc_step
    /\ UNCHANGED processed_since

(***************************************************************************)
(* Initial values of the three components.                                 *)
(***************************************************************************)
\* EventManager.__init__ on a fresh simpy.Environment
InitEM ==
    /\ now = 0
    /\ event_queue = <<>>
    /\ events_to_trigger_now = <<>>
    /\ triggered = [i \in EventIds |-> FALSE]
    /\ triggered_count = 0
    /\ proc_step = -1
    /\ process_call = "none"
    /\ calls = <<>>
    /\ fire_log = <<>>
    /\ processed_since = [i \in EventIds |-> FALSE]

\* SimulationEngine.__init__; an engine no specification runs has no agent
InitEngineIdle ==
    /\ agents = <<>>
    /\ total_steps = 0
    /\ day = 0
    /\ current_step = 0
    /\ running = FALSE
    /\ results = {}
    /\ pc = "not_started"
    /\ agent_idx = 0
    /\ stepped = <<>>
    /\ metrics_log = <<>>
    /\ process_log = <<>>
    /\ first_error = <<-1, 0>>
    /\ stop_tick = -1
    /\ early_stop = FALSE

\* SupplyChainNetwork.__init__: an empty network
InitNetIdle ==
    /\ nodes_dict = <<>>
    /\ graph = [node |-> {}, edge |-> {}]
    /\ edges_dict = <<>>
    /\ net_call = [op |-> "none", case |-> "none", outcome |-> "none",
                   result |-> <<>>]
    /\ asked = {}

\* the names of the caps in config["agent_configs"] (engine.py lines 69-72)
CapNames == {"num_export_sector_agents", "num_logistics_agents",
             "num_market_agents", "num_disruption_agents"}

\* an engine whose configuration asks for no agent and whose
\* setup_simulation is not called
InitCfgIdle ==
    /\ agent_configs = [c \in CapNames |-> 0]
    /\ setup_state = "not_called"

\* no disruption agent
InitDisIdle ==
    /\ start_step = -1
    /\ duration = 0
    /\ active = FALSE
    /\ duration_remaining = -1
    /\ dis_tick = 0
    /\ apply_calls = 0
    /\ remove_calls = 0

(***************************************************************************)
(* SpecEQ: the EventManager driven directly.                               *)
(***************************************************************************)
QuietEM == process_call # "active"

\* a caller schedules an event
EQSchedule ==
    /\ QuietEM
    /\ Len(calls) < MaxEvents
    /\ \E step \in Ticks : ScheduleEvent(step)
    /\ UNCHANGED <<now, events_to_trigger_now, triggered, triggered_count,
                   proc_step, process_call, fire_log, processed_since>>
    /\ UNCHANGED <<engVars, engObs, disVars, netVars, cfgVars>>

\* a caller calls process_events(T)
EQProcess ==
    /\ QuietEM
    /\ \E T \in Ticks : ProcessEventsBegin(T)
    /\ UNCHANGED <<now, triggered, calls, fire_log>>
    /\ UNCHANGED <<engVars, engObs, disVars, netVars, cfgVars>>

\* the call in progress triggers its next due event
EQTrigger ==
    /\ process_call = "active"
    /\ \E beh \in {ReturnBeh, RaiseBeh} \cup ScheduleBehs : TriggerNext(beh)
    /\ UNCHANGED now
    /\ UNCHANGED <<engVars, engObs, disVars, netVars, cfgVars>>

\* env.timeout(1): simulation time advances
EQTimeout ==
    /\ QuietEM
    /\ now < MaxTicks
    /\ now' = now + 1
    /\ UNCHANGED <<event_queue, events_to_trigger_now, triggered,
                   triggered_count, proc_step, process_call>>
    /\ UNCHANGED <<emObs, engVars, engObs, disVars, netVars, cfgVars>>

InitEQ == InitEM /\ InitEngineIdle /\ InitDisIdle /\ InitNetIdle /\ InitCfgIdle

NextEQ == EQSchedule \/ EQProcess \/ EQTrigger \/ EQTimeout

SpecEQ == InitEQ /\ [][NextEQ]_vars

(***************************************************************************)
(* Spec: a SimulationEngine run.                                           *)
(*                                                                         *)
(* pc is the position of the run:                                          *)
(*   "not_started"  before run_simulation                                  *)
(*   "aborted"      run_simulation returned {} (no agent registered)       *)
(*   "tick"         at the head of the for loop, about to run tick day     *)
(*   "trigger"      inside process_events, due events left to trigger      *)
(*   "agents"       inside the loop over self.agents, agent_idx is next    *)
(*   "metrics"      before _collect_step_metrics                           *)
(*   "timeout"      at yield self.env.timeout(1)                           *)
(*   "finished"     _simulation_loop has returned                          *)
(*   "crashed"      an exception left _simulation_loop                     *)
(***************************************************************************)
\* _register_agent, called by setup_simulation: agents are named by their
\* registration number
RegisterAgent ==
    /\ pc = "not_started"
    /\ Len(agents) < MaxAgents
    /\ agents' = Append(agents, Len(agents) + 1)
    /\ UNCHANGED <<total_steps, day, current_step, running, results, pc,
                   agent_idx>>
    /\ UNCHANGED <<emVars, emObs, engObs, disVars, netVars, cfgVars>>

\* a collaborator schedules an event before the run
PreSchedule ==
    /\ pc = "not_started"
    /\ Len(calls) < MaxRunEvents
    /\ \E step \in Ticks : ScheduleEvent(step)
    /\ UNCHANGED <<now, events_to_trigger_now, triggered, triggered_count,
                   proc_step, process_call, fire_log, processed_since>>
    /\ UNCHANGED <<engVars, engObs, disVars, netVars, cfgVars>>

FinishRunCountsLastTick ==
    /\ running' = FALSE
    /\ results' = {<<"total_simulation_days", current_step>>,
                   <<"total_agents", Len(agents)>>}
    /\ pc' = "finished"

\* _collect_final_results (lines 202-209) and the end of _simulation_loop
\* (lines 170-173)
FinishRun ==
    /\ running' = FALSE
    /\ results' = {<<"total_simulation_days", current_step + 1>>,
                   <<"total_agents", Len(agents)>>}
    /\ pc' = "finished"

RunSimulationWithoutAgentTest ==
    /\ pc = "not_started"
    /\ IF total_steps > 0
       THEN /\ pc' = "tick"
            /\ running' = TRUE
            /\ UNCHANGED results
       ELSE FinishRun
    /\ UNCHANGED <<agents, total_steps, day, current_step, agent_idx>>
    /\ UNCHANGED <<emVars, emObs, engObs, disVars, netVars, cfgVars>>

\* a loop that starts without setting self.running
RunSimulationWithoutRunning ==
    /\ pc = "not_started"
    /\ IF agents = <<>>
       THEN /\ pc' = "aborted"
            /\ UNCHANGED <<running, results>>
       ELSE IF total_steps > 0
            THEN /\ pc' = "tick"
                 /\ UNCHANGED <<running, results>>
            ELSE FinishRun
    /\ UNCHANGED <<agents, total_steps, day, current_step, agent_idx>>
    /\ UNCHANGED <<emVars, emObs, engObs, disVars, netVars, cfgVars>>

\* run_simulation (lines 175-186) up to the first tick: without agents it
\* returns {}; otherwise the loop starts (lines 138-146), and with
\* total_steps = 0 it is left at once
RunSimulation ==
    /\ pc = "not_started"
    /\ IF agents = <<>>
       THEN /\ pc' = "aborted"
            /\ UNCHANGED <<running, results>>
       ELSE IF total_steps > 0
            THEN /\ pc' = "tick"
                 /\ running' = TRUE
                 /\ UNCHANGED results
            ELSE FinishRun
    /\ UNCHANGED <<agents, total_steps, day, current_step, agent_idx>>
    /\ UNCHANGED <<emVars, emObs, engObs, disVars, netVars, cfgVars>>

BeginTickWithoutEvents ==
    /\ pc = "tick"
    /\ current_step' = day
    /\ stepped' = <<>>
    /\ agent_idx' = 1
    /\ pc' = "agents"
    /\ UNCHANGED <<agents, total_steps, day, running, results>>
    /\ UNCHANGED <<emVars, emObs, metrics_log, process_log, first_error,
                   stop_tick, early_stop, disVars, netVars, cfgVars>>

\* the head of a loop iteration (lines 146-151): current_step = day, then
\* the call of process_events(current_step)
BeginTick ==
    /\ pc = "tick"
    /\ current_step' = day
    /\ ProcessEventsBegin(day)
    /\ process_log' = Append(process_log, day)
    /\ stepped' = <<>>
    /\ agent_idx' = 1
    /\ pc' = IF DueEvents(event_queue, day) = <<>> THEN "agents"
             ELSE "trigger"
    /\ UNCHANGED <<now, triggered, calls, fire_log>>
    /\ UNCHANGED <<agents, total_steps, day, running, results>>
    /\ UNCHANGED <<metrics_log, first_error, stop_tick, early_stop, disVars, netVars,
                   cfgVars>>

\* SimulationEngine.stop (lines 188-192), called by a callback
CallbackOnEngine(beh) ==
    IF beh.kind = "stop"
    THEN /\ running' = (IF running THEN FALSE ELSE running)
         /\ stop_tick' = IF stop_tick = -1 THEN current_step ELSE stop_tick
    ELSE UNCHANGED <<running, stop_tick>>

Behaviours == {ReturnBeh, RaiseBeh, StopBeh} \cup ScheduleBehs

\* process_events(current_step) triggers its next due event (line 151)
TriggerEvent ==
    /\ pc = "trigger"
    /\ \E beh \in Behaviours :
           /\ TriggerNext(beh)
           /\ CallbackOnEngine(beh)
           /\ Len(calls') <= MaxRunEvents
    /\ pc' = CASE process_call' = "raised" -> "crashed"
               [] process_call' = "returned" -> "agents"
               [] OTHER -> "trigger"
    /\ UNCHANGED now
    /\ UNCHANGED <<agents, total_steps, day, current_step, results,
                   agent_idx>>
    /\ UNCHANGED <<stepped, metrics_log, process_log, first_error,
                   early_stop, disVars, netVars, cfgVars>>

AgentAtReversed(k) == agents[Len(agents) + 1 - k]

\* "for agent in self.agents" (line 154): the agent of the k-th iteration
AgentAt(k) == agents[k]

StepErrorEscapes(exc) == FALSE

\* line 157: "except Exception" catches what an agent's step raises
CaughtByLoop(exc) == exc = "Exception"

\* one iteration of the loop over the agents (lines 154-158): the step of
\* the next agent, which returns, raises, schedules an event or calls
\* stop(); first_error records the tick and the position of the first agent
\* whose step raised
AgentStep ==
    /\ pc = "agents"
    /\ \E beh \in Behaviours :
           LET escapes == beh.kind = "raise" /\ ~CaughtByLoop("Exception") IN
           /\ CallbackOnQueue(beh)
           /\ CallbackOnEngine(beh)
           /\ Len(calls') <= MaxRunEvents
           /\ stepped' = Append(stepped, AgentAt(agent_idx))
           /\ first_error' = IF beh.kind = "raise" /\ first_error[1] = -1
                             THEN <<current_step, agent_idx>>
                             ELSE first_error
           /\ agent_idx' = IF escapes THEN agent_idx ELSE agent_idx + 1
           /\ pc' = IF escapes THEN "crashed"
                    ELSE IF agent_idx = Len(agents) THEN "metrics"
                    ELSE "agents"
    /\ UNCHANGED <<now, events_to_trigger_now, triggered, triggered_count,
                   proc_step, process_call, fire_log, processed_since>>
    /\ UNCHANGED <<agents, total_steps, day, current_step, results>>
    /\ UNCHANGED <<metrics_log, process_log, early_stop, disVars, netVars,
                   cfgVars>>

\* the metrics of the tick collected two times
CollectStepMetricsTwice ==
    /\ pc = "metrics"
    /\ metrics_log' = metrics_log \o <<current_step, current_step>>
    /\ pc' = "timeout"
    /\ UNCHANGED <<agents, total_steps, day, current_step, running, results,
                   agent_idx>>
    /\ UNCHANGED <<emVars, emObs, stepped, process_log, first_error,
                   stop_tick, early_stop, disVars, netVars, cfgVars>>

CollectStepMetricsIntoResults ==
    /\ pc = "metrics"
    /\ metrics_log' = Append(metrics_log, current_step)
    /\ results' = results \cup {<<"last_step", current_step>>}
    /\ pc' = "timeout"
    /\ UNCHANGED <<agents, total_steps, day, current_step, running,
                   agent_idx>>
    /\ UNCHANGED <<emVars, emObs, stepped, process_log, first_error,
                   stop_tick, early_stop, disVars, netVars, cfgVars>>

\* _collect_step_metrics (line 161; lines 194-200 do nothing)
CollectStepMetrics ==
    /\ pc = "metrics"
    /\ metrics_log' = Append(metrics_log, current_step)
    /\ pc' = "timeout"
    /\ UNCHANGED <<agents, total_steps, day, current_step, running, results,
                   agent_idx>>
    /\ UNCHANGED <<emVars, emObs, stepped, process_log, first_error,
                   stop_tick, early_stop, disVars, netVars, cfgVars>>

TimeoutOneTickShort ==
    /\ pc = "timeout"
    /\ now' = now + 1
    /\ IF running /\ day + 1 < total_steps - 1
       THEN /\ day' = day + 1
            /\ pc' = "tick"
            /\ UNCHANGED <<running, results>>
       ELSE /\ FinishRun
            /\ UNCHANGED day
    /\ UNCHANGED <<agents, total_steps, current_step, agent_idx>>
    /\ UNCHANGED <<event_queue, events_to_trigger_now, triggered,
                   triggered_count, proc_step, process_call>>
    /\ UNCHANGED <<emObs, engObs, disVars, netVars, cfgVars>>

TimeoutIgnoresStop ==
    /\ pc = "timeout"
    /\ now' = now + 1
    /\ IF day + 1 < total_steps
       THEN /\ day' = day + 1
            /\ pc' = "tick"
            /\ UNCHANGED <<running, results>>
       ELSE /\ FinishRun
            /\ UNCHANGED day
    /\ UNCHANGED <<agents, total_steps, current_step, agent_idx>>
    /\ UNCHANGED <<event_queue, events_to_trigger_now, triggered,
                   triggered_count, proc_step, process_call>>
    /\ UNCHANGED <<emObs, engObs, disVars, netVars, cfgVars>>

\* yield self.env.timeout(1) (line 164), the test of self.running (lines
\* 166-168) and the next value of the for loop; the loop is left by the
\* break or at the end of range(total_steps)
Timeout ==
    /\ pc = "timeout"
    /\ now' = now + 1
    /\ IF running /\ day + 1 < total_steps
       THEN /\ day' = day + 1
            /\ pc' = "tick"
            /\ UNCHANGED <<running, results>>
       ELSE /\ FinishRun
            /\ UNCHANGED day
    /\ UNCHANGED <<agents, total_steps, current_step, agent_idx>>
    /\ UNCHANGED <<event_queue, events_to_trigger_now, triggered,
                   triggered_count, proc_step, process_call>>
    /\ UNCHANGED <<emObs, engObs, disVars, netVars, cfgVars>>

\* SimulationEngine.__init__ with a configuration's total_steps
InitEngine ==
    /\ agents = <<>>
    /\ total_steps \in 0..MaxTicks
    /\ day = 0
    /\ current_step = 0
    /\ running = FALSE
    /\ results = {}
    /\ pc = "not_started"
    /\ agent_idx = 0
    /\ stepped = <<>>
    /\ metrics_log = <<>>
    /\ process_log = <<>>
    /\ first_error = <<-1, 0>>
    /\ stop_tick = -1
    /\ early_stop = FALSE

Init == InitEM /\ InitEngine /\ InitDisIdle /\ InitNetIdle /\ InitCfgIdle

Next ==
    \/ RegisterAgent
    \/ PreSchedule
    \/ RunSimulation
    \/ BeginTick
    \/ TriggerEvent
    \/ AgentStep
    \/ CollectStepMetrics
    \/ Timeout

Spec == Init /\ [][Next]_vars

\* env.run() (line 185) runs the process of _simulation_loop until it has
\* returned: once run_simulation was called, the loop goes on whenever it
\* can.  Whether and when run_simulation is called is up to the caller.
LoopStep ==
    BeginTick \/ TriggerEvent \/ AgentStep \/ CollectStepMetrics \/ Timeout

FairSpec == Spec /\ WF_vars(LoopStep)

(***************************************************************************)
(* SpecOps: a SimulationEngine whose caller also calls stop() and          *)
(* run_simulation() when no run is in progress (the engine runs in one     *)
(* thread: while run_simulation is executing, only the actions of events   *)
(* and the steps of agents can call the engine).                           *)
(***************************************************************************)
\* no call of run_simulation is in progress
Idle == pc \in {"not_started", "aborted", "finished"}

\* SimulationEngine.stop (lines 188-192), called by the caller of the engine
StopCall ==
    /\ Idle
    /\ running' = (IF running THEN FALSE ELSE running)
    /\ UNCHANGED <<agents, total_steps, day, current_step, results, pc,
                   agent_idx>>
    /\ UNCHANGED <<emVars, emObs, engObs, disVars, netVars, cfgVars>>

\* run_simulation (lines 175-186) called again after it has returned:
\* without agents it returns {} again; otherwise env.process starts a new
\* _simulation_loop, whose for loop begins at day 0 (lines 138-146).  The
\* log of the processed ticks is kept within 2 * MaxTicks entries.
RunSimulationAgain ==
    /\ pc \in {"aborted", "finished"}
    /\ Len(process_log) <= MaxTicks
    /\ IF agents = <<>>
       THEN /\ pc' = "aborted"
            /\ UNCHANGED <<running, results, day>>
       ELSE IF total_steps > 0
            THEN /\ pc' = "tick"
                 /\ running' = TRUE
                 /\ day' = 0
                 /\ UNCHANGED results
            ELSE /\ FinishRun
                 /\ UNCHANGED day
    /\ UNCHANGED <<agents, total_steps, current_step, agent_idx>>
    /\ UNCHANGED <<emVars, emObs, engObs, disVars, netVars, cfgVars>>

NextOps ==
    \/ RegisterAgent
    \/ PreSchedule
    \/ RunSimulation
    \/ BeginTick
    \/ TriggerEvent
    \/ AgentStep
    \/ CollectStepMetrics
    \/ Timeout
    \/ StopCall
    \/ RunSimulationAgain

SpecOps == Init /\ [][NextOps]_vars

(***************************************************************************)
(* SpecDis: one DisruptionAgent stepped once per tick, from tick 0.        *)
(* duration_remaining is not set by __init__: -1 stands for "no such       *)
(* attribute yet"; step reads it only when active, after it was set.       *)
(* apply_impact and remove_impact only log: apply_calls and remove_calls   *)
(* count their calls.  The agent's engine holds a network of any nodes.    *)
(***************************************************************************)
\* the kinds of node (nodes.py lines 199-207)
NodeTypes == {"Factory", "Port", "Warehouse", "Market", "TransportHub"}

\* a node object as its class constructs it (nodes.py lines 14-28 and
\* 46-66): BaseNode keeps the identifier as id and the kind as type, the
\* subclasses add operational_status
NewNode(id, type) ==
    [id |-> id, type |-> type, operational_status |-> "OPERATIONAL"]

\* the networks of at most MaxNodes nodes: add_node_object (lines 23-32)
\* called with nodes of the identifiers 1, 2, ... and of any kinds
Networks ==
    UNION {{[i \in 1..n |-> NewNode(i, ts[i])] : ts \in [1..n -> NodeTypes]} :
           n \in 0..MaxNodes}

\* DisruptionAgent.target_scope (line 16): the default of the configuration
target_scope == "all"

\* DisruptionAgent.apply_impact (lines 43-51): it logs a warning and changes
\* nothing
ApplyImpact(t) ==
    /\ apply_calls' = apply_calls + 1
    /\ UNCHANGED netVars

\* DisruptionAgent.remove_impact (lines 53-57): it logs a warning and
\* changes nothing
RemoveImpact(t) ==
    /\ remove_calls' = remove_calls + 1
    /\ UNCHANGED netVars

DisruptionStepAnyStart(t) ==
    IF ~active /\ t >= start_step
    THEN /\ active' = TRUE
         /\ duration_remaining' = duration
         /\ ApplyImpact(t)
         /\ UNCHANGED remove_calls
    ELSE IF active
         THEN IF duration_remaining > 0
              THEN /\ duration_remaining' = duration_remaining - 1
                   /\ UNCHANGED <<active, apply_calls, remove_calls,
                                  netVars>>
              ELSE /\ active' = FALSE
                   /\ RemoveImpact(t)
                   /\ UNCHANGED <<duration_remaining, apply_calls>>
         ELSE UNCHANGED <<active, duration_remaining, apply_calls,
                          remove_calls, netVars>>

\* a step that applies the impact again on every tick of the disruption
DisruptionStepReapplying(t) ==
    IF ~active /\ start_step >= 0 /\ t >= start_step
    THEN /\ active' = TRUE
         /\ duration_remaining' = duration
         /\ ApplyImpact(t)
         /\ UNCHANGED remove_calls
    ELSE IF active
         THEN IF duration_remaining > 0
              THEN /\ duration_remaining' = duration_remaining - 1
                   /\ ApplyImpact(t)
                   /\ UNCHANGED <<active, remove_calls>>
              ELSE /\ active' = FALSE
                   /\ RemoveImpact(t)
                   /\ UNCHANGED <<duration_remaining, apply_calls>>
         ELSE UNCHANGED <<active, duration_remaining, apply_calls,
                          remove_calls, netVars>>

\* DisruptionAgent.step(current_step) (lines 21-41)
DisruptionStep(t) ==
    IF ~active /\ start_step >= 0 /\ t >= start_step
    THEN /\ active' = TRUE
         /\ duration_remaining' = duration
         /\ ApplyImpact(t)
         /\ UNCHANGED remove_calls
    ELSE IF active
         THEN IF duration_remaining > 0
              THEN /\ duration_remaining' = duration_remaining - 1
                   /\ UNCHANGED <<active, apply_calls, remove_calls,
                                  netVars>>
              ELSE /\ active' = FALSE
                   /\ RemoveImpact(t)
                   /\ UNCHANGED <<duration_remaining, apply_calls>>
         ELSE UNCHANGED <<active, duration_remaining, apply_calls,
                          remove_calls, netVars>>

\* the number of ticks the agent is stepped for: past the end of the
\* longest disruption
DisRunLen == MaxStart + MaxDuration + 3

\* the loop steps the agent at the next tick (engine.py line 156)
DisTick ==
    /\ dis_tick < DisRunLen
    /\ DisruptionStep(dis_tick)
    /\ dis_tick' = dis_tick + 1
    /\ UNCHANGED <<start_step, duration>>
    /\ UNCHANGED <<emVars, emObs, engVars, engObs, cfgVars>>

\* DisruptionAgent.__init__ (lines 11-19) with a configuration's start_step
\* and duration
InitDis ==
    /\ start_step \in -1..MaxStart
    /\ duration \in 0..MaxDuration
    /\ active = FALSE
    /\ duration_remaining = -1
    /\ dis_tick = 0
    /\ apply_calls = 0
    /\ remove_calls = 0

\* the network the engine of the agent was constructed with
InitNet ==
    /\ nodes_dict \in Networks
    /\ graph = [node |-> {nodes_dict[i].id : i \in 1..Len(nodes_dict)},
                edge |-> {}]
    /\ edges_dict = <<>>
    /\ net_call = [op |-> "add_node_object", case |-> "fresh",
                   outcome |-> "returned", result |-> <<>>]
    /\ asked = {}

InitD == InitEM /\ InitEngineIdle /\ InitDis /\ InitNet /\ InitCfgIdle

NextDis == DisTick

SpecDis == InitD /\ [][NextDis]_vars

(***************************************************************************)
(* SpecDisAny: one DisruptionAgent whose step is called with any ticks, in *)
(* any order and any number of times per tick.  dis_tick is the tick of    *)
(* the last call plus one.  The calls end once remove_impact has been      *)
(* called MaxCycles times.                                                 *)
(***************************************************************************)
\* a caller calls step(t) for some tick t
DisStepAny ==
    /\ remove_calls < MaxCycles
    /\ \E t \in 0..(DisRunLen - 1) :
           /\ DisruptionStep(t)
           /\ dis_tick' = t + 1
    /\ UNCHANGED <<start_step, duration>>
    /\ UNCHANGED <<emVars, emObs, engVars, engObs, cfgVars>>

InitDAny == InitEM /\ InitEngineIdle /\ InitDis /\ InitNetIdle /\ InitCfgIdle

NextDisAny == DisStepAny

SpecDisAny == InitDAny /\ [][NextDisAny]_vars

(***************************************************************************)
(* SpecSetup: a network is built by add_node_object calls; then            *)
(* setup_simulation is called once on an engine that holds it.  A          *)
(* registered agent is the record of its agent_id (the prefix and the      *)
(* node identifier or number it is formed of), its class and its node.     *)
(***************************************************************************)
AddNodeObjectIntoDictOnly(node_obj) ==
    /\ nodes_dict' = Append(nodes_dict, node_obj)
    /\ UNCHANGED graph

\* SupplyChainNetwork.add_node_object (lines 23-32): a node whose id is
\* already in nodes_dict is skipped, any other is put at the end of
\* nodes_dict and its id among the nodes of the graph
AddNodeObject(node_obj) ==
    IF \E i \in 1..Len(nodes_dict) : nodes_dict[i].id = node_obj.id
    THEN UNCHANGED <<nodes_dict, graph>>
    ELSE /\ nodes_dict' = Append(nodes_dict, node_obj)
         /\ graph' = [graph EXCEPT !.node = @ \cup {node_obj.id}]

\* the builder of the network adds a node
AddNode ==
    /\ setup_state = "not_called"
    /\ Len(nodes_dict) < MaxNodes
    /\ \E id \in 1..MaxNodes, type \in NodeTypes :
           AddNodeObject(NewNode(id, type))
    /\ UNCHANGED <<edges_dict, net_call, asked>>
    /\ UNCHANGED <<emVars, emObs, engVars, engObs, disVars, cfgVars>>

\* SupplyChainNetwork.get_all_nodes (lines 87-88): the values of nodes_dict,
\* a dict, in the order of their insertion
get_all_nodes == nodes_dict

\* isinstance(node_obj, C) for the node classes of nodes.py, each of which a
\* node's type names (engine.py names them Factory, Port, Warehouse,
\* TransportHub and MarketNode)
IsInstance(node_obj, classes) == node_obj.type \in classes

\* reading attribute attr of an object: an AttributeError when the object
\* has no such attribute
HasAttribute(obj, attr) == attr \in DOMAIN obj

\* the branch of the if / elif chain of lines 82-108 taken for a node:
\* which cap it counts against, or "none" when no branch is taken
BranchTaken(node_obj, created, cfg) ==
    IF /\ IsInstance(node_obj, {"Factory"})
       /\ created["num_export_sector_agents"] < cfg["num_export_sector_agents"]
    THEN "num_export_sector_agents"
    ELSE IF /\ IsInstance(node_obj, {"Port", "Warehouse", "TransportHub"})
            /\ created["num_logistics_agents"] < cfg["num_logistics_agents"]
         THEN "num_logistics_agents"
         ELSE IF /\ IsInstance(node_obj, {"Market"})
                 /\ created["num_market_agents"] < cfg["num_market_agents"]
              THEN "num_market_agents"
              ELSE "none"

\* the agent a branch constructs (lines 83-88, 92-97, 101-106)
AgentFor(branch, node_id) ==
    CASE branch = "num_export_sector_agents" ->
             [agent_id |-> <<"ExportAgent", node_id>>,
              class |-> "ExportSectorAgent", node |-> node_id]
      [] branch = "num_logistics_agents" ->
             [agent_id |-> <<"LogisticsAgent", node_id>>,
              class |-> "LogisticsAgent", node |-> node_id]
      [] branch = "num_market_agents" ->
             [agent_id |-> <<"MarketAgent", node_id>>,
              class |-> "MarketAgent", node |-> node_id]

\* the loop over the nodes (lines 78-108), from the nodes still to visit,
\* the counters and the agents registered so far: the agents registered
\* when the loop ends, and whether it ended by an exception.  A branch
\* that is taken reads node_obj.node_id for the agent_id (lines 84, 93,
\* 102); the node classes of nodes.py keep the identifier as id (line 18).
RECURSIVE NodeLoop(_, _, _, _)
NodeLoop(nodes, cfg, created, registered) ==
    IF nodes = <<>>
    THEN [raised |-> FALSE, agents |-> registered]
    ELSE LET node_obj == Head(nodes)
             branch == BranchTaken(node_obj, created, cfg)
         IN
         IF branch = "none"
         THEN NodeLoop(Tail(nodes), cfg, created, registered)
         ELSE IF ~HasAttribute(node_obj, "node_id")
              THEN [raised |-> TRUE, agents |-> registered]
              ELSE NodeLoop(Tail(nodes), cfg,
                            [created EXCEPT ![branch] = @ + 1],
                            Append(registered,
                                   AgentFor(branch, node_obj.node_id)))

\* the DisruptionAgents of lines 115-124
DisruptionAgents(n) ==
    [i \in 1..n |-> [agent_id |-> <<"DisruptionAgent", i>>,
                     class |-> "DisruptionAgent", node |-> 0]]

\* setup_simulation (lines 51-132)
SetupSimulation ==
    /\ setup_state = "not_called"
    /\ LET loop == NodeLoop(get_all_nodes, agent_configs,
                            [c \in CapNames |-> 0], agents)
       IN IF loop.raised
          THEN /\ agents' = loop.agents
               /\ setup_state' = "raised"
          ELSE /\ agents' = loop.agents \o
                      DisruptionAgents(agent_configs["num_disruption_agents"])
               /\ setup_state' = "returned"
    /\ UNCHANGED <<total_steps, day, current_step, running, results, pc,
                   agent_idx, agent_configs>>
    /\ UNCHANGED <<emVars, emObs, engObs, disVars, netVars>>

\* SimulationEngine.__init__ with a configuration's agent_configs and an
\* empty network that is still to be built
InitCfg ==
    /\ agent_configs \in [CapNames -> 0..MaxCap]
    /\ setup_state = "not_called"

InitSetup ==
    InitEM /\ InitEngineIdle /\ InitDisIdle /\ InitNetIdle /\ InitCfg

NextSetup == AddNode \/ SetupSimulation

SpecSetup == InitSetup /\ [][NextSetup]_vars

(***************************************************************************)
(* SpecNet: a SupplyChainNetwork whose methods a caller calls in any       *)
(* order, with nodes and edges made by the classes of nodes.py and         *)
(* edges.py.  Identifiers are numbers.  An Optional value is the set of    *)
(* the zero or one objects it holds, and the None a method returns is the  *)
(* empty tuple (a path has at least one node).                             *)
(***************************************************************************)
None == <<>>

\* the kind of node the caller of SpecNet builds (no method of the network
\* reads the kind of a node)
NetKinds == {"Factory"}

\* the classes of edges.py
EdgeClasses == {"Edge", "TransportEdge", "ContractualEdge"}

\* BaseNode.__init__ (nodes.py lines 14-28): the identifier is kept as id,
\* the kind as type; there is no operational_status
NewBaseNode(id, type) == [id |-> id, type |-> type]

\* Edge.__init__ (edges.py lines 10-26): the endpoints are kept as
\* source_id and target_id; an edge has no id, no source_node and no
\* destination_node.  cost_per_unit is an Optional[float]
NewEdge(source_node_id, target_node_id, edge_type, cost_per_unit) ==
    [source_id |-> source_node_id, target_id |-> target_node_id,
     type |-> edge_type, cost_per_unit |-> cost_per_unit,
     is_active |-> TRUE, current_flow |-> 0]

\* the identifiers in nodes_dict and in edges_dict (the keys of the dicts)
NodeKeys == {nodes_dict[i].id : i \in 1..Len(nodes_dict)}
EdgeKeys == {edges_dict[i].id : i \in 1..Len(edges_dict)}

\* SupplyChainNetwork.get_node (lines 44-46): nodes_dict.get(node_id)
get_node(node_id) ==
    {nodes_dict[i] : i \in {j \in 1..Len(nodes_dict) :
                               nodes_dict[j].id = node_id}}

\* SupplyChainNetwork.get_edge (lines 83-85): edges_dict.get(edge_id)
get_edge(edge_id) ==
    {edges_dict[i] : i \in {j \in 1..Len(edges_dict) :
                               edges_dict[j].id = edge_id}}

\* how a call ended: the branch taken, "returned" or the exception, and
\* the value returned
Ended(op, case, outcome, result) ==
    [op |-> op, case |-> case, outcome |-> outcome, result |-> result]

\* a caller calls add_node_object (lines 23-32) with a node of nodes.py: in
\* both branches the method returns None
NetAddNodeObject ==
    /\ \E id \in 1..MaxNodes, type \in NetKinds :
           /\ AddNodeObject(NewNode(id, type))
           /\ net_call' = Ended("add_node_object",
                                IF id \in NodeKeys THEN "duplicate"
                                                   ELSE "fresh",
                                "returned", None)
    /\ UNCHANGED edges_dict
    /\ UNCHANGED <<asked, emVars, emObs, engVars, engObs, disVars, cfgVars>>

\* node_class(node_id=..., name=..., node_type=..., **kwargs) (line 40):
\* BaseNode takes the three; a subclass takes node_type into its **kwargs
\* and passes them on to BaseNode.__init__ next to its own node_type
\* (nodes.py lines 53, 86, 119, 148, 177), a TypeError
NodeClassRaises(node_class) == node_class # "BaseNode"

\* a caller calls add_node (lines 34-41) with a class of nodes.py
NetAddNode ==
    /\ \E node_id \in 1..MaxNodes, node_type \in NetKinds,
          node_class \in {"BaseNode"} \cup NetKinds :
           IF node_id \in NodeKeys
           THEN /\ net_call' = Ended("add_node", "duplicate", "returned",
                                     None)
                /\ UNCHANGED <<nodes_dict, graph>>
           ELSE IF NodeClassRaises(node_class)
                THEN /\ net_call' = Ended("add_node", "fresh", "TypeError",
                                          None)
                     /\ UNCHANGED <<nodes_dict, graph>>
                ELSE /\ AddNodeObject(NewBaseNode(node_id, node_type))
                     /\ net_call' = Ended("add_node", "fresh", "returned",
                                          None)
    /\ UNCHANGED edges_dict
    /\ UNCHANGED <<asked, emVars, emObs, engVars, engObs, disVars, cfgVars>>

\* SupplyChainNetwork.add_edge_object (lines 48-61): the branch taken, how
\* the call ends and the edges_dict and graph it leaves.  The first thing
\* read is edge_obj.id (line 50), then edge_obj.source_node.id and
\* edge_obj.destination_node.id (line 54)
AddEdgeObject(edge_obj) ==
    IF ~HasAttribute(edge_obj, "id")
    THEN [case |-> "no_id", outcome |-> "AttributeError",
          edges_dict |-> edges_dict, graph |-> graph]
    ELSE IF edge_obj.id \in EdgeKeys
    THEN [case |-> "duplicate", outcome |-> "returned",
          edges_dict |-> edges_dict, graph |-> graph]
    ELSE IF \/ ~HasAttribute(edge_obj, "source_node")
            \/ ~HasAttribute(edge_obj, "destination_node")
    THEN [case |-> "no_endpoint", outcome |-> "AttributeError",
          edges_dict |-> edges_dict, graph |-> graph]
    ELSE IF \/ edge_obj.source_node.id \notin NodeKeys
            \/ edge_obj.destination_node.id \notin NodeKeys
    THEN [case |-> "unknown_endpoint", outcome |-> "returned",
          edges_dict |-> edges_dict, graph |-> graph]
    ELSE [case |-> "fresh", outcome |-> "returned",
          edges_dict |-> Append(edges_dict, edge_obj),
          graph |-> [graph EXCEPT
                        !.edge = @ \cup {<<edge_obj.source_node.id,
                                           edge_obj.destination_node.id,
                                           edge_obj.id>>}]]

\* a caller calls add_edge_object with an edge of edges.py
NetAddEdgeObject ==
    /\ \E s \in 1..MaxNodes, t \in 1..MaxNodes :
           LET r == AddEdgeObject(NewEdge(s, t, "Road", {}))
           IN /\ edges_dict' = r.edges_dict
              /\ graph' = r.graph
              /\ net_call' = Ended("add_edge_object", r.case, r.outcome,
                                   None)
    /\ UNCHANGED nodes_dict
    /\ UNCHANGED <<asked, emVars, emObs, engVars, engObs, disVars, cfgVars>>

\* the parameters an edge class must be given and, when it takes no
\* **kwargs, the ones it can be given (edges.py lines 10-16, 47-48, 54-55)
RequiredParams(edge_class) ==
    {"source_node_id", "target_node_id"} \cup
    CASE edge_class = "Edge" -> {"edge_type"}
      [] edge_class = "TransportEdge" -> {"transport_mode"}
      [] edge_class = "ContractualEdge" -> {"contract_type"}

AcceptedParams ==
    {"source_node_id", "target_node_id", "edge_type", "capacity",
     "travel_time_hours", "cost_per_unit", "attributes"}

\* edge_class(edge_id=..., source_node=..., destination_node=...,
\* edge_type=..., **kwargs) (lines 76-77): a TypeError when a required
\* parameter is not given or a keyword is not a parameter of
\* Edge.__init__, which the subclasses pass their **kwargs to
EdgeClassRaises(edge_class, keywords) ==
    \/ RequiredParams(edge_class) \ keywords # {}
    \/ keywords \ (AcceptedParams \cup RequiredParams(edge_class)) # {}

\* SupplyChainNetwork.add_edge (lines 63-80) called with edge_id, the two
\* node ids, a class of edges.py and cost_per_unit, given in **kwargs
\* unless it is None
AddEdge(edge_id, s, t, edge_class, cost_per_unit) ==
    IF edge_id \in EdgeKeys
    THEN /\ net_call' = Ended("add_edge", "duplicate", "returned", None)
         /\ UNCHANGED <<edges_dict, graph>>
    ELSE IF get_node(s) = {} \/ get_node(t) = {}
    THEN /\ net_call' = Ended("add_edge", "unknown_endpoint", "returned",
                              None)
         /\ UNCHANGED <<edges_dict, graph>>
    ELSE IF EdgeClassRaises(edge_class,
                            {"edge_id", "source_node", "destination_node",
                             "edge_type"} \cup
                            IF cost_per_unit = {} THEN {}
                                                  ELSE {"cost_per_unit"})
    THEN /\ net_call' = Ended("add_edge", "fresh", "TypeError", None)
         /\ UNCHANGED <<edges_dict, graph>>
    ELSE LET r == AddEdgeObject(NewEdge(s, t, "Road", cost_per_unit))
         IN /\ edges_dict' = r.edges_dict
            /\ graph' = r.graph
            /\ net_call' = Ended("add_edge", r.case, r.outcome, None)

\* a caller calls add_edge with a class of edges.py
NetAddEdge ==
    /\ \E edge_id \in 1..MaxNodes, s \in 1..MaxNodes, t \in 1..MaxNodes,
          edge_class \in EdgeClasses :
           AddEdge(edge_id, s, t, edge_class, {})
    /\ UNCHANGED nodes_dict
    /\ UNCHANGED <<asked, emVars, emObs, engVars, engObs, disVars, cfgVars>>

\* the nodes an edge of the graph leads to from u
Succ(u) == {e[2] : e \in {x \in graph.edge : x[1] = u}}

\* the walks of n hops from s to t along the edges of the graph
HopPaths(s, t, n) ==
    {p \in [1..(n + 1) -> graph.node] :
        /\ p[1] = s
        /\ p[n + 1] = t
        /\ \A i \in 1..n : p[i + 1] \in Succ(p[i])}

\* nx.shortest_path(graph, source, target) without weight (line 124): a
\* path of the fewest hops, which one of them is networkx's choice;
\* NetworkXNoPath when there is none
ShortestPaths(s, t) ==
    LET hops == {n \in 0..(Cardinality(graph.node) - 1) :
                    HopPaths(s, t, n) # {}}
    IN IF hops = {}
       THEN {}
       ELSE HopPaths(s, t, CHOOSE n \in hops : \A m \in hops : n <= m)

\* SupplyChainNetwork.find_path (lines 93-135): the branches a call can
\* take with the value it returns.  weight_attribute is "" for the default
\* None (line 103 tests its truth).  With a weight_attribute, networkx
\* calls the weight (line 120) with the two endpoints and, the graph being
\* a multigraph, the dict of the parallel edges between them: get_edge_weight
\* (lines 109-117) looks that dict up as a key of edges_dict, a TypeError
\* (unhashable) that line 133 catches.  Dijkstra calls the weight for the
\* edges that leave the source first; a source that is the target is
\* answered before any edge is looked at.
FindPath(s, t, weight_attribute) ==
    IF s \notin NodeKeys \/ t \notin NodeKeys
    THEN {[case |-> "unknown_node", result |-> None]}
    ELSE IF weight_attribute # ""
    THEN IF s = t
         THEN {[case |-> "found", result |-> <<s>>]}
         ELSE IF Succ(s) # {}
         THEN {[case |-> "exception", result |-> None]}
         ELSE {[case |-> "no_path", result |-> None]}
    ELSE IF ShortestPaths(s, t) = {}
    THEN {[case |-> "no_path", result |-> None]}
    ELSE {[case |-> "found", result |-> p] : p \in ShortestPaths(s, t)}

\* a caller calls find_path; net_call keeps the arguments of the call
NetFindPath ==
    /\ \E s \in 1..MaxNodes, t \in 1..MaxNodes,
          w \in {"", "cost_per_unit"} :
           \E r \in FindPath(s, t, w) :
               net_call' = [op |-> "find_path", case |-> r.case,
                            outcome |-> "returned", result |-> r.result,
                            source |-> s, target |-> t, weight |-> w]
    /\ UNCHANGED <<nodes_dict, graph, edges_dict>>
    /\ UNCHANGED <<asked, emVars, emObs, engVars, engObs, disVars, cfgVars>>

\* a caller calls apply_disruption_to_node (lines 138-145): a node that is
\* found is told update_status("DISRUPTED", details), a method that no
\* class of nodes.py defines; a node that is not found is logged.  net_call
\* keeps the id the call was made with
NetApplyDisruptionToNode ==
    /\ \E node_id \in 1..MaxNodes :
           LET node == get_node(node_id)
               outcome == IF \E n \in node : ~HasAttribute(n, "update_status")
                          THEN "AttributeError"
                          ELSE "returned"
           IN net_call' =
                  [op |-> "apply_disruption_to_node",
                   case |-> IF node = {} THEN "not_found" ELSE "found",
                   outcome |-> outcome, result |-> None, target |-> node_id]
    /\ UNCHANGED <<nodes_dict, graph, edges_dict>>
    /\ UNCHANGED <<asked, emVars, emObs, engVars, engObs, disVars, cfgVars>>

\* a caller calls apply_disruption_to_edge (lines 147-154): likewise, for
\* an edge of edges_dict
NetApplyDisruptionToEdge ==
    /\ \E edge_id \in 1..MaxNodes :
           LET edge == get_edge(edge_id)
               outcome == IF \E e \in edge : ~HasAttribute(e, "update_status")
                          THEN "AttributeError"
                          ELSE "returned"
           IN net_call' =
                  [op |-> "apply_disruption_to_edge",
                   case |-> IF edge = {} THEN "not_found" ELSE "found",
                   outcome |-> outcome, result |-> None, target |-> edge_id]
    /\ UNCHANGED <<nodes_dict, graph, edges_dict>>
    /\ UNCHANGED <<asked, emVars, emObs, engVars, engObs, disVars, cfgVars>>

\* a caller calls clear_disruption: SupplyChainNetwork (lines 10-289) has
\* no method of that name, nor any other that undoes a disruption, so the
\* call is an AttributeError
NetClearDisruption ==
    /\ \E id \in 1..MaxNodes :
           net_call' = [op |-> "clear_disruption", case |-> "no_method",
                        outcome |-> "AttributeError", result |-> None,
                        target |-> id]
    /\ UNCHANGED <<nodes_dict, graph, edges_dict>>
    /\ UNCHANGED <<asked, emVars, emObs, engVars, engObs, disVars, cfgVars>>

InitNetwork ==
    InitEM /\ InitEngineIdle /\ InitDisIdle /\ InitNetIdle /\ InitCfgIdle

NextNet ==
    \/ NetAddNodeObject
    \/ NetAddNode
    \/ NetAddEdgeObject
    \/ NetAddEdge
    \/ NetFindPath
    \/ NetApplyDisruptionToNode
    \/ NetApplyDisruptionToEdge
    \/ NetClearDisruption

SpecNet == InitNetwork /\ [][NextNet]_vars

(***************************************************************************)
(* SpecPath: a network of MaxNodes nodes, built by add_node_object, on     *)
(* which a caller calls add_edge, with edge ids 1, 2, ..., two different   *)
(* nodes and the default edge class, and find_path.  asked keeps the edges *)
(* the caller asked for.                                                   *)
(***************************************************************************)
\* the cost_per_unit the caller gives an edge: None, 1 or 5
Costs == {{}, {1}, {5}}

PathAddEdge ==
    /\ Cardinality(asked) < MaxEdges
    /\ \E s \in 1..MaxNodes, t \in 1..MaxNodes, cost \in Costs :
           LET edge_id == Cardinality(asked) + 1
           IN /\ s # t
              /\ AddEdge(edge_id, s, t, "Edge", cost)
              /\ asked' = IF /\ edge_id \notin EdgeKeys
                             /\ get_node(s) # {}
                             /\ get_node(t) # {}
                          THEN asked \cup {<<s, t, edge_id, cost>>}
                          ELSE asked
    /\ UNCHANGED nodes_dict
    /\ UNCHANGED <<emVars, emObs, engVars, engObs, disVars, cfgVars>>

InitPath ==
    /\ InitEM /\ InitEngineIdle /\ InitDisIdle /\ InitCfgIdle
    /\ nodes_dict = [i \in 1..MaxNodes |-> NewNode(i, "Factory")]
    /\ graph = [node |-> 1..MaxNodes, edge |-> {}]
    /\ edges_dict = <<>>
    /\ net_call = Ended("add_node_object", "fresh", "returned", None)
    /\ asked = {}

NextPath == PathAddEdge \/ NetFindPath

SpecPath == InitPath /\ [][NextPath]_vars

(***************************************************************************)
(* Observations used by the properties.                                    *)
(***************************************************************************)
CallIds == 1..Len(calls)
AcceptedIds == {c \in CallIds : calls[c].accepted}
\* how many times the action of the event of call id has been invoked
Execs(id) == Cardinality({i \in 1..Len(fire_log) : fire_log[i].id = id})
InQueue(id) == \E i \in 1..Len(event_queue) : event_queue[i].id = id
Pending(id) ==
    \E i \in 1..Len(events_to_trigger_now) : events_to_trigger_now[i].id = id

(***************************************************************************)
(* Properties of the EventManager (SpecEQ).                                *)
(***************************************************************************)
\* C1: an accepted event is not executed before a process_events(T) call for
\* its step T is made; the first such call made after it was scheduled
\* executes its action exactly once (and takes it out of the queue); no
\* later process_events(T) call executes it again.
C1_ExactlyOnce ==
    \A c \in AcceptedIds :
        /\ Execs(c) <= 1
        /\ ~processed_since[c] => Execs(c) = 0 /\ InQueue(c)
        /\ processed_since[c] /\ ~Pending(c) =>
               /\ Execs(c) = 1
               /\ ~InQueue(c)
               /\ \E i \in 1..Len(fire_log) :
                      fire_log[i].id = c /\ fire_log[i].at = calls[c].step

\* C1 witness: events 1 and 3 have the same step T and were executed by two
\* different process_events(T) calls (a call for another step, which
\* executed event 2, was made between them): process_events(T) was called
\* again after event 1 had been executed.
C1_Witness ==
    /\ Len(fire_log) = 3
    /\ fire_log[1].id = 1 /\ fire_log[2].id = 2 /\ fire_log[3].id = 3
    /\ fire_log[1].at = fire_log[3].at
    /\ fire_log[1].at # fire_log[2].at
    /\ fire_log[1].call < fire_log[3].call
    /\ process_call = "returned"

\* C5: the queue is ordered by non-decreasing step, events of equal step
\* stand in it in the order of their schedule_event calls, and events of
\* equal step are executed in the order of their schedule_event calls.
C5_FifoPerTick ==
    /\ \A i, j \in 1..Len(event_queue) :
           i < j => /\ event_queue[i].step <= event_queue[j].step
                    /\ event_queue[i].step = event_queue[j].step
                           => event_queue[i].id < event_queue[j].id
    /\ \A i, j \in 1..Len(events_to_trigger_now) :
           i < j => events_to_trigger_now[i].id < events_to_trigger_now[j].id
    /\ \A i, j \in 1..Len(fire_log) :
           i < j /\ calls[fire_log[i].id].step = calls[fire_log[j].id].step
              => fire_log[i].id < fire_log[j].id

\* C5 witness: calls 1 and 3 scheduled the same step, call 2 (accepted, made
\* between them) a smaller one that sorts in front of both; one
\* process_events call executed event 1 and then event 3.
C5_Witness ==
    /\ Len(calls) = 3
    /\ calls[2].accepted
    /\ calls[2].step < calls[1].step
    /\ calls[1].step = calls[3].step
    /\ processed_since[1]
    /\ Len(fire_log) >= 2
    /\ \E i \in 1..(Len(fire_log) - 1) :
           /\ fire_log[i].id = 1 /\ fire_log[i + 1].id = 3
           /\ fire_log[i].call = fire_log[i + 1].call

\* C6: a schedule_event call whose step was smaller than env.now creates no
\* event and leaves the queue as it was: nothing of it is in the queue or
\* among the due events, and no
\* process_events call executes its action.
C6_PastRejected ==
    \A c \in CallIds :
        calls[c].past =>
            /\ ~calls[c].accepted
            /\ calls[c].kept
            /\ ~InQueue(c)
            /\ ~Pending(c)
            /\ Execs(c) = 0

\* C6 witness: a call was rejected as past while the queue held an event,
\* and process_events was then called for its step and has returned.
C6_Witness ==
    \E c \in CallIds :
        /\ calls[c].past
        /\ processed_since[c]
        /\ process_call = "returned"
        /\ Len(fire_log) >= 1

\* C7: an event whose action raised is out of the queue and is executed
\* exactly once; the process_events call it failed in goes on: every other
\* event of the same step that was scheduled before that call is executed
\* once, and the call returns normally.
C7_FailureIsolated ==
    /\ process_call # "raised"
    /\ \A i \in 1..Len(fire_log) :
           fire_log[i].raised =>
               LET f == fire_log[i].id IN
               /\ ~InQueue(f)
               /\ Execs(f) = 1
               /\ ~triggered[f]
               /\ \A g \in AcceptedIds :
                      /\ calls[g].step = calls[f].step
                      /\ processed_since[g]
                      /\ ~Pending(g)
                      => Execs(g) = 1 /\ ~InQueue(g)

\* C7 witness: in one process_events call the action of event 1 raised and
\* event 2, due at the same step, was executed after it; the call returned
\* and event 3, scheduled for that step afterwards, was executed by a later
\* call.
C7_Witness ==
    /\ Len(fire_log) = 3
    /\ fire_log[1].id = 1 /\ fire_log[1].raised
    /\ fire_log[2].id = 2 /\ ~fire_log[2].raised
    /\ fire_log[3].id = 3
    /\ fire_log[1].at = fire_log[2].at
    /\ fire_log[1].at = fire_log[3].at
    /\ fire_log[1].call = fire_log[2].call
    /\ fire_log[2].call < fire_log[3].call
    /\ process_call = "returned"

(***************************************************************************)
(* Properties of the simulation loop (Spec).                               *)
(***************************************************************************)
\* the run is inside tick current_step, at or after the agents' steps
InAgentPhase == pc \in {"agents", "metrics", "timeout"}

\* C2: when the first agent's step of a tick T is about to begin, and from
\* then on during the tick, process_events(T) has been called and has
\* returned, and the action of every event for T that was scheduled before
\* tick T began has been executed by it.
C2_EventsBeforeAgents ==
    InAgentPhase =>
        /\ events_to_trigger_now = <<>>
        /\ process_call = "returned"
        /\ process_log # <<>>
        /\ process_log[Len(process_log)] = current_step
        /\ \A c \in AcceptedIds :
               calls[c].step = current_step /\ calls[c].during < current_step
                  => /\ Execs(c) = 1
                     /\ \E i \in 1..Len(fire_log) :
                            fire_log[i].id = c /\ fire_log[i].at = current_step

\* C2 witness: in tick 1 the first agent is about to step, after an event
\* scheduled before the run and one scheduled during tick 0, both for
\* tick 1, have been executed.
C2_Witness ==
    /\ pc = "agents" /\ agent_idx = 1 /\ current_step = 1
    /\ \E c, d \in AcceptedIds :
           /\ calls[c].step = 1 /\ calls[c].during = -1
           /\ calls[d].step = 1 /\ calls[d].during = 0
           /\ Execs(c) = 1 /\ Execs(d) = 1

\* C3: in every tick the agents are stepped in registration order, each
\* once: during the loop over the agents the agents stepped so far are the
\* first agent_idx - 1 registered ones, after it they are all the
\* registered agents, and every tick that was begun runs to its metrics.
C3_EveryAgentOnceInOrder ==
    /\ pc = "agents" => /\ agent_idx \in 1..Len(agents)
                        /\ stepped = SubSeq(agents, 1, agent_idx - 1)
    /\ pc \in {"metrics", "timeout"} => stepped = agents
    /\ pc = "finished" /\ total_steps > 0 => stepped = agents
    /\ pc \in {"timeout", "finished"} => metrics_log = process_log
    /\ pc # "crashed"

\* C3 witness: the second tick of a run with two agents has stepped both.
C3_Witness ==
    /\ pc = "metrics" /\ current_step = 1
    /\ Len(agents) = 2 /\ stepped = <<1, 2>>

\* C4, as claimed: when a run that was never stopped has finished, every
\* event accepted for a tick below total_steps has been executed exactly
\* once, by the process_events call of its tick, has its triggered flag
\* set, and is out of the queue.
C4_EveryEventFires ==
    pc = "finished" /\ stop_tick = -1 =>
        \A c \in AcceptedIds :
            calls[c].step < total_steps =>
                /\ Execs(c) = 1
                /\ triggered[c]
                /\ ~InQueue(c)
                /\ \E i \in 1..Len(fire_log) :
                       fire_log[i].id = c /\ fire_log[i].at = calls[c].step

\* C8: once the step of an agent has raised in tick T, the agents after it
\* are still stepped in tick T, the metrics of tick T are collected, the
\* run does not crash, and unless stop() was called by then the run goes on
\* to tick T + 1 when there is one.
C8_StepFailureIsolated ==
    first_error[1] >= 0 =>
        LET T == first_error[1] IN
        /\ pc # "crashed"
        /\ current_step = T /\ pc \in {"metrics", "timeout"}
              => stepped = agents
        /\ current_step > T \/ pc \in {"timeout", "finished"}
              => \E i \in 1..Len(metrics_log) : metrics_log[i] = T
        /\ (pc = "finished" /\ T + 1 < total_steps
               /\ (stop_tick = -1 \/ stop_tick > T))
              => \E i \in 1..Len(process_log) : process_log[i] = T + 1

\* C8 witness: the step of the first of two agents raised in tick 0, and
\* the run went on to step both agents in tick 1.
C8_Witness ==
    /\ first_error = <<0, 1>>
    /\ Len(agents) = 2
    /\ current_step = 1 /\ pc = "metrics"
    /\ metrics_log = <<0>>

\* C13: once stop() has been called during tick T, by the action of an
\* event or by the step of an agent, the run stays in tick T until it ends:
\* process_events is not called for a later tick, the agents after the
\* caller are stepped in tick T, the metrics of tick T are collected, and
\* the run comes to its end with results.
C13_StopAtTickBoundary ==
    /\ [](stop_tick >= 0 =>
            /\ pc \in {"trigger", "agents", "metrics", "timeout", "finished"}
            /\ current_step = stop_tick
            /\ process_log # <<>>
            /\ process_log[Len(process_log)] = stop_tick
            /\ (pc = "agents" => stepped = SubSeq(agents, 1, agent_idx - 1))
            /\ (pc \in {"metrics", "timeout", "finished"} => stepped = agents)
            /\ (pc \in {"timeout", "finished"} =>
                   /\ metrics_log # <<>>
                   /\ metrics_log[Len(metrics_log)] = stop_tick)
            /\ (pc = "finished" => ~running /\ results # {}))
    /\ (stop_tick >= 0 ~> (pc = "finished" /\ results # {}))

\* C13 witness: in a run of two ticks with two agents and no event, the step
\* of an agent called stop() in tick 0; both agents were stepped in tick 0,
\* its metrics were collected, and the run has ended without a tick 1.
C13_Witness ==
    /\ stop_tick = 0 /\ total_steps = 2
    /\ fire_log = <<>>
    /\ Len(agents) = 2 /\ stepped = agents
    /\ process_log = <<0>> /\ metrics_log = <<0>>
    /\ pc = "finished" /\ results # {}

\* C14: in a run with at least one agent in which stop() is not called,
\* process_events is called for the ticks 0, 1, 2, ... in this order, once
\* each and for no tick beyond total_steps - 1; a run that was started comes
\* to its end, and at the end of a run in which stop() was never called
\* every tick below total_steps has been processed, its metrics collected,
\* and the results are there.
C14_RunCompletes ==
    /\ [](/\ pc # "crashed"
          /\ Len(process_log) <= total_steps
          /\ \A i \in 1..Len(process_log) : process_log[i] = i - 1
          /\ (pc = "finished" /\ stop_tick = -1 =>
                 /\ Len(process_log) = total_steps
                 /\ metrics_log = process_log
                 /\ ~running
                 /\ results # {}))
    /\ (pc \in {"tick", "trigger", "agents", "metrics", "timeout"}
           ~> pc = "finished")

\* C14 witness: a run of MaxTicks ticks with a registered agent, in which
\* stop() was never called, has ended after the ticks 0 .. MaxTicks - 1.
C14_Witness ==
    /\ pc = "finished" /\ stop_tick = -1
    /\ total_steps = MaxTicks
    /\ Len(agents) >= 1
    /\ process_log = [i \in 1..MaxTicks |-> i - 1]
    /\ metrics_log = process_log
    /\ results # {}

\* C15: without a registered agent the run does not start: run_simulation
\* returns at once, and then, as before it, no tick has begun,
\* process_events has not been called, no action of an event and no step
\* has run, no metrics were collected and the results are empty.
C15_NoAgentsNoRun ==
    agents = <<>> =>
        /\ pc \in {"not_started", "aborted"}
        /\ ~running
        /\ process_log = <<>>
        /\ process_call = "none"
        /\ fire_log = <<>>
        /\ stepped = <<>>
        /\ metrics_log = <<>>
        /\ results = {}

\* C15 witness: run_simulation has returned without a run, on an engine
\* with no agent, total_steps = MaxTicks and an event scheduled for tick 0
\* that is still in the queue.
C15_Witness ==
    /\ pc = "aborted"
    /\ agents = <<>>
    /\ total_steps = MaxTicks
    /\ \E c \in AcceptedIds : calls[c].step = 0 /\ InQueue(c)

\* C16, as claimed: a run with total_steps = 0 and a registered agent ends
\* without any call of process_events or of an agent's step, and its
\* results give 0 as the number of ticks run (total_simulation_days).
C16_ZeroLengthRun ==
    pc = "finished" /\ total_steps = 0 =>
        /\ process_log = <<>>
        /\ stepped = <<>>
        /\ <<"total_simulation_days", 0>> \in results

\* C17: the results are empty in every state in which the run has not
\* ended, and hold both entries (total_simulation_days and total_agents)
\* once it has; the results change in one step only, the one that ends the
\* run, and that step takes them from empty to complete.
C17_ResultsWrittenOnce ==
    /\ [](/\ pc # "finished" => results = {}
          /\ pc = "finished" =>
                 /\ Cardinality(results) = 2
                 /\ \E n \in 1..(MaxTicks + 1) :
                        <<"total_simulation_days", n>> \in results
                 /\ \E n \in 1..MaxAgents : <<"total_agents", n>> \in results)
    /\ [][results' # results =>
              /\ results = {}
              /\ pc # "finished" /\ pc' = "finished"
              /\ Cardinality(results') = 2]_vars

\* C17 witness: a run of two ticks that was stopped in tick 0 has ended with
\* both entries in its results.
C17_Witness ==
    /\ pc = "finished"
    /\ total_steps = 2 /\ stop_tick = 0
    /\ Len(agents) = 1
    /\ results = {<<"total_simulation_days", 1>>, <<"total_agents", 1>>}

\* C18: at the end of a run with total_steps >= 1, total_simulation_days is
\* the number of ticks that were executed (process_events called, agents
\* stepped, metrics collected): total_steps when stop() was never called,
\* T + 1 when stop() was called during tick T; and total_agents is the
\* number of registered agents.
C18_FinalResultsAccurate ==
    pc = "finished" /\ total_steps >= 1 =>
        /\ Len(process_log) = Len(metrics_log)
        /\ <<"total_simulation_days", Len(metrics_log)>> \in results
        /\ (stop_tick = -1 =>
               <<"total_simulation_days", total_steps>> \in results)
        /\ (stop_tick >= 0 =>
               <<"total_simulation_days", stop_tick + 1>> \in results)
        /\ <<"total_agents", Len(agents)>> \in results

\* C18 witness: a run of MaxTicks ticks with MaxAgents agents, never
\* stopped, has ended.
C18_Witness ==
    /\ pc = "finished" /\ stop_tick = -1
    /\ total_steps = MaxTicks
    /\ Len(agents) = MaxAgents
    /\ Len(metrics_log) = MaxTicks
    /\ results = {<<"total_simulation_days", MaxTicks>>,
                  <<"total_agents", MaxAgents>>}

\* C19, as claimed: once a run has ended (its results are there) the engine
\* stays in its terminal state whatever is called: it is not running, no
\* tick is begun and no agent is stepped again, so that no more than
\* total_steps ticks are ever processed.
C19_TerminalAbsorbing ==
    results # {} =>
        /\ pc = "finished"
        /\ ~running
        /\ Len(process_log) <= total_steps

(***************************************************************************)
(* Properties of setup_simulation (SpecSetup).                             *)
(***************************************************************************)
\* C20, as claimed: setup_simulation returns, and for each of the three
\* kinds of agent bound to nodes, with cap K and M matching nodes in the
\* network, the agents of that kind it has registered are min(K, M), bound
\* to the first min(K, M) matching nodes in the order of their insertion.
C20_PerKindCaps ==
    setup_state # "not_called" =>
        /\ setup_state = "returned"
        /\ \A k \in {<<"ExportSectorAgent", {"Factory"},
                        "num_export_sector_agents">>,
                      <<"LogisticsAgent", {"Port", "Warehouse", "TransportHub"},
                        "num_logistics_agents">>,
                      <<"MarketAgent", {"Market"}, "num_market_agents">>} :
               LET matching == SelectSeq(nodes_dict,
                                         LAMBDA n : n.type \in k[2])
                   made == SelectSeq(agents, LAMBDA a : a.class = k[1])
                   K == agent_configs[k[3]]
                   M == Len(matching)
                   want == IF K < M THEN K ELSE M
               IN /\ Len(made) = want
                  /\ \A i \in 1..want : made[i].node = matching[i].id

(***************************************************************************)
(* Properties of the DisruptionAgent (SpecDis).                            *)
(***************************************************************************)
\* the tick of the agent's last step
LastStepped == dis_tick - 1

\* C9, as claimed: for start_step S >= 0 and duration D >= 1 the agent is
\* inactive after step(t) for t < S, active after step(t) for
\* S <= t < S + D, and step(S + D) makes it inactive and calls
\* remove_impact.
C9_ActiveWindow ==
    dis_tick >= 1 /\ start_step >= 0 /\ duration >= 1 =>
        /\ LastStepped < start_step => ~active
        /\ start_step <= LastStepped /\ LastStepped < start_step + duration
              => active
        /\ LastStepped = start_step + duration
              => ~active /\ remove_calls = 1

\* C10, as claimed: for start_step S >= 0, apply_impact and remove_impact
\* are each called at most once, the agent is never active again after
\* remove_impact, and once the run is past the end of the disruption each
\* has been called exactly once.
C10_OneShot ==
    start_step >= 0 =>
        /\ apply_calls <= 1
        /\ remove_calls <= 1
        /\ remove_calls >= 1 => ~active
        /\ dis_tick >= 1 /\ LastStepped > start_step + duration
              => apply_calls = 1 /\ remove_calls = 1

\* C12, as claimed: when the agent has become active, every node of the
\* network that its target_scope selects ("all": every node) has the status
\* DISRUPTED, for as long as the agent is active; when it has become
\* inactive again, after remove_impact, those nodes are OPERATIONAL.
C12_ImpactReachesGraph ==
    target_scope = "all" =>
        \A i \in 1..Len(nodes_dict) :
            /\ active => nodes_dict[i].operational_status = "DISRUPTED"
            /\ ~active /\ remove_calls >= 1
                  => nodes_dict[i].operational_status = "OPERATIONAL"

Signalled(call) == ~(call.outcome = "returned" /\ call.result = None)

\* C21, as claimed: a call of add_node (or add_node_object) with an id that
\* is already present ends in a failure the caller is told of and leaves
\* nodes_dict and the graph as they were; a call with a fresh id puts the
\* node into nodes_dict and its id among the nodes of the graph.
C21_AddNode ==
    [][(NetAddNodeObject \/ NetAddNode) =>
           /\ (net_call'.case = "duplicate" =>
                   /\ Signalled(net_call')
                   /\ UNCHANGED <<nodes_dict, graph>>)
           /\ (net_call'.case = "fresh" =>
                   /\ Len(nodes_dict') = Len(nodes_dict) + 1
                   /\ nodes_dict'[Len(nodes_dict')].id \notin NodeKeys
                   /\ graph'.node = graph.node \cup
                                    {nodes_dict'[Len(nodes_dict')].id})]_vars
\* C22, as claimed: a call of add_edge (or add_edge_object) whose source or
\* target is not in nodes_dict, or whose edge id is already in edges_dict,
\* ends in a failure the caller is told of and leaves edges_dict and the
\* graph as they were; any other call puts the edge into edges_dict and
\* into the graph.
C22_AddEdge ==
    [][(NetAddEdgeObject \/ NetAddEdge) =>
           IF net_call'.case \in {"unknown_endpoint", "duplicate"}
           THEN /\ Signalled(net_call')
                /\ UNCHANGED <<edges_dict, graph>>
           ELSE /\ Len(edges_dict') = Len(edges_dict) + 1
                /\ Cardinality(graph'.edge) =
                       Cardinality(graph.edge) + 1]_vars
\* C23, as claimed: the graph is a multigraph: a call of add_edge (or
\* add_edge_object) with a fresh edge id between two nodes of the network
\* stores the edge whatever edges the pair already has: the edges stored
\* before are kept, the new one is the last of edges_dict, and each edge
\* of edges_dict is the only one of its id (the one get_edge returns for
\* it) and is an edge of the graph under that id as its key.
C23_ParallelEdges ==
    [][((NetAddEdgeObject \/ NetAddEdge) /\ net_call'.case = "fresh") =>
           /\ Len(edges_dict') = Len(edges_dict) + 1
           /\ SubSeq(edges_dict', 1, Len(edges_dict)) = edges_dict
           /\ graph.edge \subseteq graph'.edge
           /\ \A i \in 1..Len(edges_dict') :
                  /\ \A j \in 1..Len(edges_dict') :
                         edges_dict'[j].id = edges_dict'[i].id => j = i
                  /\ \E e \in graph'.edge : e[3] = edges_dict'[i].id]_vars
\* C24: in every state a sequence of add_node, add_node_object, add_edge,
\* add_edge_object, apply_disruption_to_node, apply_disruption_to_edge and
\* clear_disruption calls can reach, whether the calls succeeded, were
\* rejected or raised: no two nodes of nodes_dict have the same id, the
\* ids of nodes_dict are the nodes of the graph, the ids of edges_dict are
\* the keys of the edges of the graph, one edge per key, and the endpoints
\* of every edge of the graph are ids of nodes_dict.
C24_GraphConsistent ==
    /\ \A i, j \in 1..Len(nodes_dict) :
           nodes_dict[i].id = nodes_dict[j].id => i = j
    /\ NodeKeys = graph.node
    /\ EdgeKeys = {e[3] : e \in graph.edge}
    /\ Cardinality(graph.edge) = Len(edges_dict)
    /\ \A e \in graph.edge : e[1] \in NodeKeys /\ e[2] \in NodeKeys

\* C24's case: a network of two nodes or more on which an add of a node
\* has been rejected as a duplicate, or an add of an edge between two of
\* its nodes has raised
C24_Witness ==
    /\ Len(nodes_dict) >= 2
    /\ \/ net_call.op \in {"add_node", "add_node_object"}
          /\ net_call.case = "duplicate"
       \/ net_call.op = "add_edge" /\ net_call.outcome = "TypeError"
(***************************************************************************)
(* Properties of find_path (SpecPath).                                     *)
(***************************************************************************)
\* the walks of n hops from s to t along the edges the caller asked for
AskedHopPaths(s, t, n) ==
    {p \in [1..(n + 1) -> 1..MaxNodes] :
        /\ p[1] = s
        /\ p[n + 1] = t
        /\ \A i \in 1..n : \E e \in asked : e[1] = p[i] /\ e[2] = p[i + 1]}

\* C25, as claimed: find_path(source, target) without a weight returns a
\* path of the fewest hops over the directed edges that were added, and
\* None when the edges lead no way from source to target (with edges 1->2,
\* 1->3 and 3->2, find_path(1, 2) is <<1, 2>>).
C25_MinHop ==
    (net_call.op = "find_path" /\ net_call.weight = "") =>
        LET hops == {n \in 0..(MaxNodes - 1) :
                        AskedHopPaths(net_call.source, net_call.target, n)
                            # {}}
        IN IF hops = {}
           THEN net_call.result = None
           ELSE net_call.result \in
                    AskedHopPaths(net_call.source, net_call.target,
                                  CHOOSE n \in hops : \A m \in hops : n <= m)
\* the cost_per_unit of the hop from u to v over the edges the caller asked
\* for: the least of those of the parallel edges that have one
HopCosts(u, v) == UNION {e[4] : e \in {x \in asked : x[1] = u /\ x[2] = v}}
HopCost(u, v) == CHOOSE c \in HopCosts(u, v) : \A b \in HopCosts(u, v) : c <= b

\* the walks of n hops from s to t each hop of which has a cost_per_unit
CostedWalks(s, t, n) ==
    {p \in [1..(n + 1) -> 1..MaxNodes] :
        /\ p[1] = s
        /\ p[n + 1] = t
        /\ \A i \in 1..n : HopCosts(p[i], p[i + 1]) # {}}

\* the cost_per_unit of the first k hops of a walk, summed
RECURSIVE WalkCost(_, _)
WalkCost(p, k) ==
    IF k = 0 THEN 0 ELSE WalkCost(p, k - 1) + HopCost(p[k], p[k + 1])

\* the walks from s to t of the least summed cost_per_unit
CheapestWalks(s, t) ==
    LET walks == UNION {CostedWalks(s, t, n) : n \in 0..(MaxNodes - 1)}
    IN {p \in walks :
           \A q \in walks : WalkCost(p, Len(p) - 1) <= WalkCost(q, Len(q) - 1)}

\* C26, as claimed: when every edge that was added has a cost_per_unit,
\* find_path(source, target, "cost_per_unit") returns a path of the least
\* summed cost_per_unit, the cost of a hop being the least among the
\* parallel edges of the hop (with edges 1->2 of cost 5 and 1->3, 3->2 of
\* cost 1, find_path(1, 2, "cost_per_unit") is <<1, 3, 2>>).
C26_MinWeight ==
    (/\ net_call.op = "find_path"
     /\ net_call.weight = "cost_per_unit"
     /\ \A e \in asked : e[4] # {}
     /\ CheapestWalks(net_call.source, net_call.target) # {}) =>
        net_call.result \in CheapestWalks(net_call.source, net_call.target)

C28_FindPathOutcomes ==
    [][NetFindPath =>
           /\ (net_call'.case = "no_path" =>
                   net_call'.outcome = "returned" /\ net_call'.result = None)
           /\ (net_call'.case = "unknown_node" => Signalled(net_call'))
           /\ UNCHANGED <<nodes_dict, edges_dict, graph>>]_vars

\* the nodes of the network and the status they have
StatusOf(node_id) ==
    {n.operational_status :
        n \in {m \in get_node(node_id) :
                  HasAttribute(m, "operational_status")}}

\* C29, as claimed (its statements about the status): a call of
\* apply_disruption for a node of the network returns and leaves the node
\* DISRUPTED, a call of clear_disruption for it returns and leaves it
\* OPERATIONAL, and a call for an id that is not in the network changes no
\* node's status.
C29_DisruptionStatus ==
    /\ (net_call.op = "apply_disruption_to_node" /\ net_call.case = "found") =>
           /\ net_call.outcome = "returned"
           /\ StatusOf(net_call.target) = {"DISRUPTED"}
    /\ (net_call.op = "clear_disruption" /\ net_call.target \in NodeKeys) =>
           /\ net_call.outcome = "returned"
           /\ StatusOf(net_call.target) = {"OPERATIONAL"}
    /\ (net_call.op = "apply_disruption_to_node"
            /\ net_call.case = "not_found") =>
           \A id \in NodeKeys : StatusOf(id) \subseteq {"OPERATIONAL"}

\* the nodes a path goes through between its two ends
Inner(path) == {path[i] : i \in 2..(Len(path) - 1)}

\* C30, as claimed: once apply_disruption(X) has been called for a node X
\* of the network, the call has returned and no find_path with a weight
\* goes through X; a call of clear_disruption(X) returns and leaves every
\* find_path with a weight the answers it had before.
C30_DisruptionAndPaths ==
    [][/\ (NetApplyDisruptionToNode /\ net_call'.case = "found") =>
              /\ net_call'.outcome = "returned"
              /\ \A s \in NodeKeys, t \in NodeKeys :
                     \A r \in FindPath(s, t, "cost_per_unit")' :
                         net_call'.target \notin Inner(r.result)
       /\ (NetClearDisruption /\ net_call'.target \in NodeKeys) =>
              /\ net_call'.outcome = "returned"
              /\ \A s \in NodeKeys, t \in NodeKeys :
                     FindPath(s, t, "cost_per_unit")' =
                         FindPath(s, t, "cost_per_unit")]_vars
(***************************************************************************)
(* Properties of process_events and Event.trigger (SpecEQ)                 *)
(***************************************************************************)

\* C31, as claimed: the number a process_events call returns is the number
\* of events that call fired, i.e. the events whose action it ran to
\* completion and whose triggered flag it set.
C31_ReturnsFiredCount ==
    (process_call = "returned" /\ triggered_count > 0) =>
        triggered_count =
            Cardinality({i \in 1..Len(fire_log) :
                            /\ fire_log[i].call = fire_log[Len(fire_log)].call
                            /\ ~fire_log[i].raised})
\* C32: an event's triggered flag is set only by a call of its action that
\* returned: every event with the flag set has such a call in the log, an
\* event whose action raised has left the queue with the flag still unset,
\* and the flag of an event changes only in the step in which its action
\* returns.
C32_FiredAfterSuccess ==
    /\ [](/\ \A id \in EventIds :
                 triggered[id] =>
                     \E i \in 1..Len(fire_log) :
                         fire_log[i].id = id /\ ~fire_log[i].raised
          /\ \A k \in 1..Len(fire_log) :
                 fire_log[k].raised =>
                     ~triggered[fire_log[k].id] /\ ~InQueue(fire_log[k].id))
    /\ [][\A id \in EventIds :
              triggered'[id] # triggered[id] =>
                  /\ triggered'[id]
                  /\ fire_log' = Append(fire_log, fire_log'[Len(fire_log')])
                  /\ fire_log'[Len(fire_log')].id = id
                  /\ ~fire_log'[Len(fire_log')].raised]_vars

\* C32 witness: a process_events call has returned after it executed two
\* events; the action of the first raised and its flag is unset, the action
\* of the second returned and its flag is set; neither is in the queue.
C32_Witness ==
    /\ process_call = "returned"
    /\ Len(fire_log) = 2
    /\ fire_log[1].raised /\ ~fire_log[2].raised
    /\ fire_log[1].call = fire_log[2].call
    /\ ~triggered[fire_log[1].id] /\ triggered[fire_log[2].id]
    /\ ~InQueue(fire_log[1].id) /\ ~InQueue(fire_log[2].id)
\* C33: _collect_step_metrics is called exactly once in every executed
\* tick: the ticks with collected metrics are the ticks whose events were
\* processed, less the current one while it is still under way; the call is
\* made when every registered agent has been stepped in the tick (whether
\* its step returned or raised), it is made for the current tick, and the
\* clock and the tick counter move on only after it.
C33_MetricsOncePerTick ==
    /\ [](/\ \A i \in 1..Len(metrics_log) : metrics_log[i] = i - 1
          /\ pc \in {"trigger", "agents", "metrics"} =>
                 process_log = Append(metrics_log, current_step)
          /\ pc \in {"timeout", "finished"} => metrics_log = process_log)
    /\ [][metrics_log' # metrics_log =>
              /\ stepped = agents
              /\ metrics_log' = Append(metrics_log, current_step)
              /\ UNCHANGED <<day, current_step, now, stepped>>]_vars
    /\ [][now' # now \/ current_step' # current_step \/ day' # day =>
              /\ metrics_log # <<>>
              /\ metrics_log[Len(metrics_log)] = current_step
              /\ UNCHANGED metrics_log]_vars

\* C33 witness: the metrics of the second tick of a run with two agents
\* have been collected, after a tick in which the step of the last agent
\* raised.
C33_Witness ==
    /\ pc = "timeout" /\ current_step = 1
    /\ Len(agents) = 2
    /\ first_error = <<0, 2>>
    /\ metrics_log = <<0, 1>>
(***************************************************************************)
(* SpecAgents: one agent of each class, constructed without a node, on an  *)
(* engine that holds a network of MaxAgents nodes.  A caller schedules     *)
(* events and steps the agents in their order, tick after tick, as lines   *)
(* 154-156 of engine.py do.  dis_tick is the tick of the calls, agent_idx  *)
(* the position of the next agent, stepped the positions of the agents     *)
(* stepped in the tick.                                                    *)
(***************************************************************************)
\* what the step of an agent can reach through self.simulation_engine
\* (base_agent.py line 10): the network, the EventManager's queue and flags,
\* the registered agents and their fields
Reachable == <<nodes_dict, graph, edges_dict, event_queue, triggered, calls,
               agents, start_step, duration, active, duration_remaining,
               apply_calls, remove_calls>>

\* ExportSectorAgent.step (lines 42-54): produce, manage_inventory and
\* process_orders (lines 56-66) are placeholders that only pass
ExportSectorStep(t) ==
    LET produce == UNCHANGED Reachable
        manage_inventory == UNCHANGED Reachable
        process_orders == UNCHANGED Reachable
    IN produce /\ manage_inventory /\ process_orders

\* a LogisticsAgent whose update_status marks the first node of the network
LogisticsStepUpdatingNode(t) ==
    /\ nodes_dict' = [nodes_dict EXCEPT ![1].operational_status = "DISRUPTED"]
    /\ UNCHANGED <<graph, edges_dict, event_queue, triggered, calls, agents,
                   start_step, duration, active, duration_remaining,
                   apply_calls, remove_calls>>

\* LogisticsAgent.step (lines 63-73): process_queue and update_status (lines
\* 75-81) are placeholders that only pass
LogisticsStep(t) ==
    LET process_queue == UNCHANGED Reachable
        update_status == UNCHANGED Reachable
    IN process_queue /\ update_status

\* MarketAgent.step (lines 40-48): generate_demand (lines 50-52) is a
\* placeholder that only passes
MarketStep(t) ==
    LET generate_demand == UNCHANGED Reachable
    IN generate_demand

\* agent.step(current_step) (engine.py line 156) on the class of the agent
StepOf(agent, t) ==
    CASE agent.class = "ExportSectorAgent" -> ExportSectorStep(t)
      [] agent.class = "LogisticsAgent" -> LogisticsStep(t)
      [] agent.class = "MarketAgent" -> MarketStep(t)
      [] agent.class = "DisruptionAgent" ->
             /\ DisruptionStep(t)
             /\ UNCHANGED <<event_queue, triggered, calls, agents, start_step,
                            duration>>

\* the caller steps the next agent; after the last agent the next tick begins
AgentsStep ==
    /\ dis_tick <= MaxTicks
    /\ StepOf(agents[agent_idx], dis_tick)
    /\ IF agent_idx = Len(agents)
       THEN agent_idx' = 1 /\ dis_tick' = dis_tick + 1 /\ stepped' = <<>>
       ELSE /\ agent_idx' = agent_idx + 1
            /\ stepped' = Append(stepped, agent_idx)
            /\ UNCHANGED dis_tick
    /\ UNCHANGED <<now, events_to_trigger_now, triggered_count, proc_step,
                   process_call, fire_log, processed_since>>
    /\ UNCHANGED <<total_steps, day, current_step, running, results, pc>>
    /\ UNCHANGED <<metrics_log, process_log, first_error, stop_tick,
                   early_stop>>
    /\ UNCHANGED <<net_call, asked, cfgVars>>

\* the caller schedules an event
AgentsSchedule ==
    /\ Len(calls) < MaxRunEvents
    /\ \E step \in Ticks : ScheduleEvent(step)
    /\ UNCHANGED <<now, events_to_trigger_now, triggered, triggered_count,
                   proc_step, process_call, fire_log, processed_since>>
    /\ UNCHANGED <<engVars, engObs, disVars, netVars, cfgVars>>

\* the four agents, registered in the order of setup_simulation's branches,
\* and a DisruptionAgent that starts at tick 0 or never, with duration 0
InitAgents ==
    /\ InitEM /\ InitCfgIdle
    /\ InitNet /\ Len(nodes_dict) = MaxAgents
    /\ agents = <<AgentFor("num_export_sector_agents", 0),
                  AgentFor("num_logistics_agents", 0),
                  AgentFor("num_market_agents", 0)>> \o DisruptionAgents(1)
    /\ agent_idx = 1
    /\ total_steps = 0 /\ day = 0 /\ current_step = 0
    /\ running = FALSE /\ results = {} /\ pc = "not_started"
    /\ stepped = <<>> /\ metrics_log = <<>> /\ process_log = <<>>
    /\ first_error = <<-1, 0>> /\ stop_tick = -1 /\ early_stop = FALSE
    /\ start_step \in {-1, 0} /\ duration = 0
    /\ active = FALSE /\ duration_remaining = -1
    /\ dis_tick = 0 /\ apply_calls = 0 /\ remove_calls = 0

NextAgents == AgentsStep \/ AgentsSchedule

SpecAgents == InitAgents /\ [][NextAgents]_vars

(***************************************************************************)
(* Properties of the agents' steps (SpecAgents).                           *)
(***************************************************************************)
\* C34: the step of an ExportSectorAgent, a LogisticsAgent or a MarketAgent
\* leaves the network (nodes, edges, every field of every node), the event
\* queue and the flags of its events, and the registered agents and their
\* fields as they were; the network changes only in the step of a
\* DisruptionAgent, and then in the operational_status of nodes only.
C34_AgentStepFrame ==
    /\ [][(AgentsStep /\ agents[agent_idx].class # "DisruptionAgent") =>
              UNCHANGED <<nodes_dict, graph, edges_dict, event_queue,
                          events_to_trigger_now, triggered, agents,
                          start_step, duration, active, duration_remaining,
                          apply_calls, remove_calls>>]_vars
    /\ [][<<nodes_dict, graph, edges_dict>>' # <<nodes_dict, graph, edges_dict>>
              => /\ AgentsStep /\ agents[agent_idx].class = "DisruptionAgent"
                 /\ UNCHANGED <<graph, edges_dict>>
                 /\ Len(nodes_dict') = Len(nodes_dict)
                 /\ \A i \in 1..Len(nodes_dict) :
                        /\ nodes_dict'[i].id = nodes_dict[i].id
                        /\ nodes_dict'[i].type = nodes_dict[i].type]_vars

\* C34 witness: in the second tick, with two events in the queue and the
\* disruption applied in the first tick, the three agents before the
\* DisruptionAgent have been stepped.
C34_Witness ==
    /\ dis_tick = 1 /\ stepped = <<1, 2, 3>>
    /\ Len(event_queue) = 2
    /\ Len(nodes_dict) = MaxAgents
    /\ active /\ apply_calls = 1
(***************************************************************************)
(* SpecResetup: SpecSetup with a caller that calls setup_simulation again  *)
(* after it has returned or raised, while the registry holds at most       *)
(* 2 * MaxCap agents.                                                      *)
(***************************************************************************)
\* setup_simulation (lines 51-132) called on an engine it was already
\* called on: its counters are local and start from 0 again (lines 73-76),
\* and _register_agent (lines 46-49) appends whatever it is given
SetupSimulationAgain ==
    /\ setup_state # "not_called"
    /\ Len(agents) + agent_configs["num_disruption_agents"] <= 2 * MaxCap
    /\ LET loop == NodeLoop(get_all_nodes, agent_configs,
                            [c \in CapNames |-> 0], agents)
       IN IF loop.raised
          THEN /\ agents' = loop.agents
               /\ setup_state' = "raised"
          ELSE /\ agents' = loop.agents \o
                      DisruptionAgents(agent_configs["num_disruption_agents"])
               /\ setup_state' = "returned"
    /\ UNCHANGED <<total_steps, day, current_step, running, results, pc,
                   agent_idx, agent_configs>>
    /\ UNCHANGED <<emVars, emObs, engObs, disVars, netVars>>

NextResetup == AddNode \/ SetupSimulation \/ SetupSimulationAgain

SpecResetup == InitSetup /\ [][NextResetup]_vars

(***************************************************************************)
(* Properties of the agent registry (SpecResetup).                         *)
(***************************************************************************)
\* C35, as claimed: whatever number of setup_simulation calls was made, no
\* two registered agents have the same agent_id, and no node is represented
\* by two registered agents.
C35_AgentIdsUnique ==
    \A i, j \in 1..Len(agents) :
        i # j =>
            /\ agents[i].agent_id # agents[j].agent_id
            /\ agents[i].node # 0 => agents[i].node # agents[j].node
(***************************************************************************)
(* Properties of scheduling during a tick (Spec).                          *)
(***************************************************************************)
\* C36: when the action of an event that process_events(T) executes calls
\* schedule_event for the same step T, the call is accepted and the new
\* event goes to the live queue, not to the events the call in progress is
\* executing; an event scheduled during tick T for step T is not executed,
\* neither by the rest of that process_events call nor later, and is in the
\* queue once the call has returned.
C36_ReentrantSchedule ==
    /\ [](\A c \in CallIds :
              calls[c].during >= 0 /\ calls[c].step = calls[c].during =>
                  /\ calls[c].accepted
                  /\ InQueue(c)
                  /\ ~Pending(c)
                  /\ Execs(c) = 0)
    /\ [][(/\ TriggerEvent
           /\ Len(calls') = Len(calls) + 1
           /\ calls'[Len(calls')].step = proc_step) =>
              /\ proc_step = now
              /\ calls'[Len(calls')].accepted
              /\ calls'[Len(calls')].during = proc_step
              /\ \E i \in 1..Len(event_queue') :
                     event_queue'[i] = NewEvent(Len(calls'), proc_step)
              /\ events_to_trigger_now' = Tail(events_to_trigger_now)]_vars

\* C36 witness: process_events(0) has returned after the action of event 1
\* scheduled event 2 for step 0; no agent has been stepped yet, and event 2
\* is in the queue, not executed.
C36_Witness ==
    /\ pc = "agents" /\ agent_idx = 1 /\ current_step = 0
    /\ process_call = "returned"
    /\ Len(fire_log) = 1 /\ fire_log[1].id = 1
    /\ Len(calls) = 2
    /\ calls[2].step = 0 /\ calls[2].during = 0
    /\ InQueue(2) /\ ~triggered[2]
(***************************************************************************)
(* Frame of process_events (SpecEQ).                                       *)
(***************************************************************************)
\* C37: process_events(T) takes out of the queue exactly the events of step
\* T whose triggered flag is unset, and those are the events it goes on to
\* execute; every other event, also one of a step below T that no call has
\* processed, stays in the queue, in the same order and with the same
\* fields, and is not executed while the call lasts.
C37_ProcessFrame ==
    /\ [][EQProcess =>
              \E T \in Ticks :
                  LET due(e) == e.step = T /\ ~triggered[e.id]
                      other(e) == ~due(e)
                  IN /\ \A c \in CallIds :
                            processed_since'[c] =
                                (processed_since[c] \/ calls[c].step = T)
                     /\ event_queue' = SelectSeq(event_queue, other)
                     /\ events_to_trigger_now' = SelectSeq(event_queue, due)
                     /\ UNCHANGED <<triggered, fire_log, calls>>]_vars
    /\ [][EQTrigger =>
              /\ SelectSeq(event_queue', LAMBDA e : e.id <= Len(calls))
                     = event_queue
              /\ \A c \in CallIds :
                     InQueue(c) => Execs(c)' = Execs(c)
                                     /\ triggered'[c] = triggered[c]]_vars

\* C37 witness: events 1, 2 and 3 were scheduled for the steps 0, 1 and 2;
\* process_events(1) has executed event 2 and returned, and the events 1
\* and 3 are in the queue in that order, not executed.
C37_Witness ==
    /\ process_call = "returned"
    /\ Len(calls) = 3
    /\ calls[1].step = 0 /\ calls[2].step = 1 /\ calls[3].step = 2
    /\ Len(fire_log) = 1 /\ fire_log[1].id = 2 /\ fire_log[1].at = 1
    /\ event_queue = <<NewEvent(1, 0), NewEvent(3, 2)>>
    /\ ~triggered[1] /\ ~triggered[3]
(***************************************************************************)
(* SpecStop: a SimulationEngine run whose caller may call stop() before    *)
(* it calls run_simulation.                                                *)
(***************************************************************************)
\* SimulationEngine.stop (lines 188-192), called before run_simulation
StopBeforeRun ==
    /\ pc = "not_started"
    /\ running' = (IF running THEN FALSE ELSE running)
    /\ early_stop' = TRUE
    /\ UNCHANGED <<agents, total_steps, day, current_step, results, pc,
                   agent_idx>>
    /\ UNCHANGED <<emVars, emObs, stepped, metrics_log, process_log,
                   first_error, stop_tick, disVars, netVars, cfgVars>>

NextStop ==
    \/ RegisterAgent
    \/ PreSchedule
    \/ StopBeforeRun
    \/ RunSimulation
    \/ BeginTick
    \/ TriggerEvent
    \/ AgentStep
    \/ CollectStepMetrics
    \/ Timeout

SpecStop == Init /\ [][NextStop]_vars

(***************************************************************************)
(* Properties of stop() before the run (SpecStop).                         *)
(***************************************************************************)
\* C38: a stop() call made before run_simulation changes nothing of the
\* engine, its EventManager, its agents or its network, and a run started
\* after it is running from its first tick on and, unless stop() is called
\* during the run, processes every tick 0 .. total_steps - 1 and collects
\* its metrics before it ends.
C38_EarlyStopForgotten ==
    /\ [][StopBeforeRun =>
              UNCHANGED <<emVars, emObs, engVars, stepped, metrics_log,
                          process_log, first_error, stop_tick, disVars,
                          netVars, cfgVars>>]_vars
    /\ [](early_stop /\ stop_tick = -1 =>
              /\ pc \in {"tick", "trigger", "agents", "metrics", "timeout"}
                     => running
              /\ pc = "finished" =>
                     /\ process_log = [i \in 1..total_steps |-> i - 1]
                     /\ metrics_log = process_log)

\* C38 witness: stop() was called before run_simulation, and the run of
\* MaxTicks ticks that was started after it has ended with all its ticks
\* processed.
C38_Witness ==
    /\ early_stop /\ stop_tick = -1
    /\ pc = "finished"
    /\ total_steps = MaxTicks
    /\ Len(process_log) = MaxTicks
    /\ agents # <<>>
(***************************************************************************)
(* Pairing of apply_impact and remove_impact (SpecDisAny).                 *)
(***************************************************************************)
\* C39: whatever ticks step is called with, apply_impact has been called
\* once more than remove_impact while the agent is active and as often as
\* remove_impact while it is inactive; one step call makes at most one of
\* the two calls, apply_impact only from inactive to active and
\* remove_impact only from active to inactive, so that the calls alternate,
\* beginning with apply_impact.
C39_ApplyRemovePairing ==
    /\ [](apply_calls - remove_calls = IF active THEN 1 ELSE 0)
    /\ [][DisStepAny =>
              /\ apply_calls' \in {apply_calls, apply_calls + 1}
              /\ remove_calls' \in {remove_calls, remove_calls + 1}
              /\ apply_calls' = apply_calls \/ remove_calls' = remove_calls
              /\ apply_calls' # apply_calls =>
                     ~active /\ active' /\ apply_calls = remove_calls
              /\ remove_calls' # remove_calls =>
                     active /\ ~active' /\ apply_calls = remove_calls + 1]_vars

\* C39 witness: the agent is in its second disruption: apply_impact was
\* called, then remove_impact, then apply_impact again.
C39_Witness ==
    /\ active
    /\ apply_calls = 2 /\ remove_calls = 1
    /\ duration >= 1
(***************************************************************************)
(* The cap on LogisticsAgents (SpecSetup).                                 *)
(***************************************************************************)
\* C40, as claimed: with K = num_logistics_agents and the Port, Warehouse
\* and TransportHub nodes of the network taken together in insertion order,
\* setup_simulation returns with min(K, number of those nodes)
\* LogisticsAgents, bound to the first of those nodes, and a node gets no
\* agent of a class that is not the one of its kind.
C40_SharedLogisticsCap ==
    setup_state # "not_called" =>
        LET logistic == {"Port", "Warehouse", "TransportHub"}
            matching == SelectSeq(nodes_dict, LAMBDA n : n.type \in logistic)
            made == SelectSeq(agents, LAMBDA a : a.class = "LogisticsAgent")
            K == agent_configs["num_logistics_agents"]
            want == IF K < Len(matching) THEN K ELSE Len(matching)
        IN /\ setup_state = "returned"
           /\ Len(made) = want
           /\ \A i \in 1..want : made[i].node = matching[i].id
           /\ \A i \in 1..Len(agents) :
                  \A j \in 1..Len(nodes_dict) :
                      agents[i].node = nodes_dict[j].id =>
                          (agents[i].class = "LogisticsAgent"
                               <=> nodes_dict[j].type \in logistic)

=============================================================================
